---- MODULE Spec2Model ----
(***************************************************************************)
(* Model of the homebriefing-next integration layer: the in-memory session *)
(* store (pending logins, active sessions, periodic sweep), the three-step *)
(* login handshake against the portal, the request handlers that relay     *)
(* SOAP operations, and the SOAP response parsers.                         *)
(*                                                                         *)
(* Time is counted in whole minutes: Date.now() is the variable now, and   *)
(* the store's millisecond constants are divided by 60000.  Strings are    *)
(* TLA+ strings; cookie header strings are kept split at "; " and "=".     *)
(***************************************************************************)
EXTENDS Integers, Sequences, FiniteSets, TLC

(* ------------------------------ bounds --------------------------------- *)
\* number of session identifiers generateSessionId can hand out
MaxIds == 1
\* number of requests that can be in flight at the same time
MaxReqs == 2
\* the clock stops advancing at this minute
MaxTime == 6
\* the minute at which the clock of the long-running specification stops
MaxClock == 35
\* longest response body, in vocabulary tokens, the parser check composes
MaxBodyLen == 2
\* most cookies in a cookie header or a Set-Cookie answer
MaxCookies == 2
\* largest flCanDo bitmask value a listed flight plan carries
MaxCanDo == 31
\* how often the store module is loaded again
MaxLoads == 2

(* ------------------------- program constants --------------------------- *)
\* session-store.ts:18  30 * 60 * 1000 ms
SESSION_TIMEOUT == 30
\* session-store.ts:20  5 * 60 * 1000 ms
PENDING_TIMEOUT == 5
\* session-store.ts:25  setInterval(..., 5 * 60 * 1000)
CLEANUP_INTERVAL == 5
\* auth/login/route.ts:54  maxAge: 30 * 60 seconds
COOKIE_MAX_AGE == 30

Ids == 1..MaxIds
\* the value of a missing hb-session cookie / missing sessionId field
NoSid == 0
Reqs == 1..MaxReqs

(* --------------------------- string helpers ---------------------------- *)
\* the characters lo..hi of s, none when lo > hi
Clip(s, lo, hi) == IF lo > hi THEN "" ELSE SubSeq(s, lo, hi)

\* the characters i..j of s, clipped to the string as s.substring clips
Sub(s, i, j) ==
  Clip(s, IF i < 1 THEN 1 ELSE i, IF j > Len(s) THEN Len(s) ELSE j)

\* s.includes(p)
Includes(s, p) ==
  \E i \in 1..(Len(s) - Len(p) + 1) : Sub(s, i, i + Len(p) - 1) = p

\* the start positions of p in s
Occurrences(s, p) ==
  { i \in 1..(Len(s) - Len(p) + 1) : Sub(s, i, i + Len(p) - 1) = p }

SetMin(S) == CHOOSE m \in S : \A o \in S : m <= o

\* the least element of S, d when S is empty
Least(S, d) == IF S = {} THEN d ELSE SetMin(S)

\* of a set of tuples, the one with the least first component
Leftmost(ms) == CHOOSE x \in ms : \A y \in ms : x[1] <= y[1]

Letters == "abcdefghijklmnopqrstuvwxyz"
Capitals == "ABCDEFGHIJKLMNOPQRSTUVWXYZ"

\* the place in the alphabet of each capital letter
CapitalIndex ==
  [c \in { Sub(Capitals, i, i) : i \in 1..26 } |->
     CHOOSE i \in 1..26 : Sub(Capitals, i, i) = c]

\* one character folded to lower case, as the regex flag i compares
LowerChar(c) ==
  IF c \in DOMAIN CapitalIndex
  THEN Sub(Letters, CapitalIndex[c], CapitalIndex[c])
  ELSE c

RECURSIVE Lower(_)
Lower(s) ==
  IF Len(s) = 0 THEN ""
  ELSE LowerChar(Sub(s, 1, 1)) \o Lower(Sub(s, 2, Len(s)))

\* p, given in lower case, occurs in s at position i when letter case is
\* ignored (regex flag i)
StartsAtCI(s, i, p) ==
  /\ i >= 1 /\ i + Len(p) - 1 <= Len(s)
  /\ \A k \in 1..Len(p) : LowerChar(Sub(s, i + k - 1, i + k - 1)) = Sub(p, k, k)

OccurrencesCI(s, p) == { i \in 1..(Len(s) - Len(p) + 1) : StartsAtCI(s, i, p) }

\* the characters the regex atom . does not match
IsLineBreak(c) == c = "\n" \/ c = "\r"

\* s.split(sep) for a non-empty separator
RECURSIVE Split(_, _)
Split(s, sep) ==
  LET Cut(i) == IF i = 0 THEN <<s>>
                ELSE <<Sub(s, 1, i - 1)>> \o Split(Sub(s, i + Len(sep), Len(s)), sep)
  IN Cut(Least(Occurrences(s, sep), 0))

IsSpace(c) == c = " " \/ c = "\t" \/ c = "\n" \/ c = "\r"

\* s.trim()
RECURSIVE Trim(_)
Trim(s) ==
  IF Len(s) = 0 THEN s
  ELSE IF IsSpace(Sub(s, 1, 1)) THEN Trim(Sub(s, 2, Len(s)))
  ELSE IF IsSpace(Sub(s, Len(s), Len(s))) THEN Trim(Sub(s, 1, Len(s) - 1))
  ELSE s

\* position of the first occurrence of the character c in s at or after
\* from, or Len(s) + 1 when there is none
FirstChar(s, c, from) ==
  Least({ i \in from..Len(s) : Sub(s, i, i) = c }, Len(s) + 1)

(* ------------------------------ cookie jar ----------------------------- *)
\* A Map<string, string> is a sequence of <<key, value>> pairs in insertion
\* order with unique keys.
MapHas(m, k) == \E i \in 1..Len(m) : m[i][1] = k

MapGet(m, k) == m[CHOOSE i \in 1..Len(m) : m[i][1] = k][2]

\* Map.prototype.set: an existing key keeps its position
MapSet(m, k, v) ==
  IF MapHas(m, k)
  THEN [i \in 1..Len(m) |-> IF m[i][1] = k THEN <<k, v>> ELSE m[i]]
  ELSE Append(m, <<k, v>>)

MapKeys(m) == { m[i][1] : i \in 1..Len(m) }

\* the lookahead (?=[^;]+=[^;]+) evaluated on the text after a comma: an "="
\* that is not the first character, with no ";" before it and a character
\* other than ";" after it
CookieLookahead(rest) ==
  \E j \in 2..(Len(rest) - 1) :
     /\ Sub(rest, j, j) = "="
     /\ \A k \in 1..j : Sub(rest, k, k) # ";"
     /\ Sub(rest, j + 1, j + 1) # ";"

\* setCookieHeader.split(/,(?=[^;]+=[^;]+)/)
RECURSIVE SplitSetCookie(_)
SplitSetCookie(h) ==
  LET Cut(i) == IF i = 0 THEN <<h>>
                ELSE <<Sub(h, 1, i - 1)>> \o SplitSetCookie(Sub(h, i + 1, Len(h)))
  IN Cut(Least({ i \in 1..Len(h) :
                   /\ Sub(h, i, i) = ","
                   /\ CookieLookahead(Sub(h, i + 1, Len(h))) }, 0))

\* part.match(/^([^=]+)=([^;]+)/): <<name, value>>, or <<>> without a match
CookiePartMatch(part) ==
  LET Value(eq, semi) ==
        IF eq >= 2 /\ eq <= Len(part) /\ semi >= eq + 2
        THEN <<Sub(part, 1, eq - 1), Sub(part, eq + 1, semi - 1)>>
        ELSE <<>>
      Name(eq) == Value(eq, FirstChar(part, ";", eq + 1))
  IN Name(FirstChar(part, "=", 1))

\* cookies.set(match[1].trim(), match[2].trim()) when the part matched
SetCookiePart(m, mt) ==
  IF mt = <<>> THEN m ELSE MapSet(m, Trim(mt[1]), Trim(mt[2]))

RECURSIVE SetCookieParts(_, _)
SetCookieParts(parts, m) ==
  IF parts = <<>> THEN m
  ELSE SetCookieParts(Tail(parts), SetCookiePart(m, CookiePartMatch(Head(parts))))

\* extractCookies: header is the value of response.headers.get('set-cookie'),
\* "" standing for null
extractCookies(header) ==
  IF header = "" THEN <<>> ELSE SetCookieParts(SplitSetCookie(header), <<>>)

\* const [key, value] = cookie.split('='); if (key && value) set
ExistingPart(m, kv) ==
  IF kv[1] # "" /\ Len(kv) >= 2 /\ kv[2] # "" THEN MapSet(m, kv[1], kv[2]) ELSE m

\* the loop over existing.split('; ') of mergeCookies
RECURSIVE ExistingParts(_, _)
ExistingParts(parts, m) ==
  IF parts = <<>> THEN m
  ELSE ExistingParts(Tail(parts), ExistingPart(m, Split(Head(parts), "=")))

RECURSIVE MapSetAll(_, _)
MapSetAll(m, new) ==
  IF new = <<>> THEN m
  ELSE MapSetAll(MapSet(m, Head(new)[1], Head(new)[2]), Tail(new))

RECURSIVE JoinCookies(_)
JoinCookies(m) ==
  IF m = <<>> THEN ""
  ELSE IF Len(m) = 1 THEN m[1][1] \o "=" \o m[1][2]
  ELSE m[1][1] \o "=" \o m[1][2] \o "; " \o JoinCookies(Tail(m))

\* mergeCookies(existing, newCookies)
mergeCookies(existing, newCookies) ==
  JoinCookies(MapSetAll(IF existing = "" THEN <<>>
                        ELSE ExistingParts(Split(existing, "; "), <<>>),
                        newCookies))


(* ------------------------ markup pattern matching ---------------------- *)
Quote == "\""

TokenPrefix == "AWLoginDataHandler.setToken(" \o Quote

\* the positions right after TokenPrefix from which [^"]+ followed by ")
\* matches
TokenStarts(html) ==
  { st \in { i + Len(TokenPrefix) : i \in Occurrences(html, TokenPrefix) } :
      /\ FirstChar(html, Quote, st) > st
      /\ FirstChar(html, Quote, st) <= Len(html)
      /\ Sub(html, FirstChar(html, Quote, st) + 1,
             FirstChar(html, Quote, st) + 1) = ")" }

\* html.match(/AWLoginDataHandler\.setToken\("([^"]+)"\)/): the captured
\* token of the leftmost match, "" without a match
TokenMatch(html) ==
  LET From(st) == IF st = 0 THEN ""
                  ELSE Sub(html, st, FirstChar(html, Quote, st) - 1)
  IN From(Least(TokenStarts(html), 0))

\* first position at or after i that holds no white space (\s)
SkipWs(s, i) ==
  Least({ j \in i..Len(s) : ~IsSpace(Sub(s, j, j)) }, Len(s) + 1)

\* the positions <<d, q1, f, q2>> of the four quotes when
\* /new\s+AppController\s*\(\s*"([^"]+)"\s*,\s*"([^"]+)"/ matches at i
AppCtrlAt(s, i) ==
  LET Arg2End(d, q1, f, q2) ==
        IF q2 > f + 1 /\ q2 <= Len(s) THEN <<d, q1, f, q2>> ELSE <<>>
      Arg2(d, q1, f) ==
        IF Sub(s, f, f) = Quote
        THEN Arg2End(d, q1, f, FirstChar(s, Quote, f + 1)) ELSE <<>>
      Comma(d, q1, e) ==
        IF Sub(s, e, e) = "," THEN Arg2(d, q1, SkipWs(s, e + 1)) ELSE <<>>
      Arg1End(d, q1) ==
        IF q1 > d + 1 /\ q1 <= Len(s)
        THEN Comma(d, q1, SkipWs(s, q1 + 1)) ELSE <<>>
      Arg1(d) ==
        IF Sub(s, d, d) = Quote
        THEN Arg1End(d, FirstChar(s, Quote, d + 1)) ELSE <<>>
      Paren(c) ==
        IF Sub(s, c, c) = "(" THEN Arg1(SkipWs(s, c + 1)) ELSE <<>>
      Name(b) ==
        IF b > i + 3 /\ Sub(s, b, b + 12) = "AppController"
        THEN Paren(SkipWs(s, b + 13)) ELSE <<>>
  IN Name(SkipWs(s, i + 3))

\* indexHtml.match(...): <<token, userSession>>, or <<>> without a match
AppCtrlMatch(html) ==
  LET Captures(m) ==
        <<Sub(html, m[1] + 1, m[2] - 1), Sub(html, m[3] + 1, m[4] - 1)>>
      First(i) == IF i = 0 THEN <<>> ELSE Captures(AppCtrlAt(html, i))
  IN First(Least({ i \in Occurrences(html, "new") : AppCtrlAt(html, i) # <<>> }, 0))

\* the two spellings (?:ns1:)? allows for an opening and a closing tag
OpenTags(tag) == { "<" \o Lower(tag) \o ">", "<ns1:" \o Lower(tag) \o ">" }
CloseTags(tag) == { "</" \o Lower(tag) \o ">", "</ns1:" \o Lower(tag) \o ">" }

StartsAt(s, i, p) == Sub(s, i, i + Len(p) - 1) = p

\* the matches of <(?:ns1:)?TAG>([^<]*)</(?:ns1:)?TAG> with flag i, as
\* <<start, first captured position, position of the closing tag>>
LeafMatches(tag, content) ==
  { m \in UNION { { <<i, i + Len(o), FirstChar(content, "<", i + Len(o))>> :
                      i \in OccurrencesCI(content, o) } : o \in OpenTags(tag) } :
      \E c \in CloseTags(tag) : StartsAtCI(content, m[3], c) }

\* the group ([^<]*) of the leaf match m
Capture(content, m) == Sub(content, m[2], m[3] - 1)

\* getTagValue(tag, content): the capture of the leftmost match, else ""
getTagValue(tag, content) ==
  LET First(ms) == IF ms = {} THEN "" ELSE Capture(content, Leftmost(ms))
  IN First(LeafMatches(tag, content))

\* every capture of the global (flag g) leaf pattern, in document order
RECURSIVE LeafValuesFrom(_, _, _)
LeafValuesFrom(tag, content, from) ==
  LET Rest(m) ==
        <<Capture(content, m)>>
          \o LeafValuesFrom(tag, content,
               m[3] + Len(CHOOSE c \in CloseTags(tag) : StartsAtCI(content, m[3], c)))
      First(ms) == IF ms = {} THEN <<>> ELSE Rest(Leftmost(ms))
  IN First({ m \in LeafMatches(tag, content) : m[1] >= from })

\* the occurrences at or after from of one of tags, with flag i, as
\* <<start, position after the tag>>
TagSpans(xml, tags, from) ==
  UNION { { <<i, i + Len(t)>> : i \in { j \in OccurrencesCI(xml, t) : j >= from } } :
          t \in tags }

\* every capture of /<(?:ns1:)?TAG>([\s\S]*?)<\/(?:ns1:)?TAG>/gi, in order
RECURSIVE WrapperValuesFrom(_, _, _)
WrapperValuesFrom(tag, xml, from) ==
  LET Rest(o, cl) ==
        <<Sub(xml, o[2], cl[1] - 1)>> \o WrapperValuesFrom(tag, xml, cl[2])
      Open(o) == Rest(o, Leftmost(TagSpans(xml, CloseTags(tag), o[2])))
      First(good) == IF good = {} THEN <<>> ELSE Open(Leftmost(good))
  IN First({ o \in TagSpans(xml, OpenTags(tag), from) :
               TagSpans(xml, CloseTags(tag), o[2]) # {} })

Digits == <<"0", "1", "2", "3", "4", "5", "6", "7", "8", "9">>
IsDigit(c) == \E d \in 1..10 : Digits[d] = c
DigitVal(c) == (CHOOSE d \in 1..10 : Digits[d] = c) - 1

RECURSIVE DigitsValue(_, _)
DigitsValue(s, acc) ==
  IF Len(s) = 0 \/ ~IsDigit(Sub(s, 1, 1)) THEN acc
  ELSE DigitsValue(Sub(s, 2, Len(s)), acc * 10 + DigitVal(Sub(s, 1, 1)))

\* parseInt(s) || 0: leading white space, an optional sign, then the longest
\* run of decimal digits; NaN and 0 both give 0
ParseIntOr0(s) ==
  LET Number(c, body) ==
        IF Len(body) = 0 \/ ~IsDigit(Sub(body, 1, 1)) THEN 0
        ELSE IF c = "-" THEN 0 - DigitsValue(body, 0) ELSE DigitsValue(body, 0)
      Sign(i, c) ==
        Number(c, Sub(s, IF c = "-" \/ c = "+" THEN i + 1 ELSE i, Len(s)))
      Start(i) == Sign(i, Sub(s, i, i))
  IN Start(SkipWs(s, 1))

(* ----------------------- session-expiry detection ---------------------- *)
\* no character of s in lo..hi is one the regex atom . refuses
NoLineBreak(s, lo, hi) == \A k \in lo..hi : ~IsLineBreak(Sub(s, k, k))

\* the literals of a pattern P1.*P2.*... can be matched in order from
\* position from on, each gap .* staying on one line
RECURSIVE PiecesMatch(_, _, _)
PiecesMatch(lc, pieces, from) ==
  IF pieces = <<>> THEN TRUE
  ELSE \E i \in OccurrencesCI(lc, Head(pieces)) :
         /\ i >= from
         /\ NoLineBreak(lc, from, i - 1)
         /\ PiecesMatch(lc, Tail(pieces), i + Len(Head(pieces)))

\* pattern.test(xml) for a pattern with flag i given by its literals
PatternTest(pieces, xml) ==
  \E i \in OccurrencesCI(xml, Head(pieces)) :
     PiecesMatch(xml, Tail(pieces), i + Len(Head(pieces)))

SESSION_EXPIRY_PATTERNS ==
  << <<"session", "expired">>,
     <<"invalid", "session">>,
     <<"not", "logged", "in">>,
     <<"login", "required">>,
     <<"authentication", "failed">>,
     <<"unauthorized">> >>

\* the second test of isSessionExpiredResponse: HTML instead of XML
LooksLikeHtml(xml) == Includes(xml, "<!DOCTYPE html") \/ Includes(xml, "<html")

isSessionExpiredResponseNoHtml(xml) ==
  \E p \in 1..Len(SESSION_EXPIRY_PATTERNS) :
     PatternTest(SESSION_EXPIRY_PATTERNS[p], xml)

isSessionExpiredResponse(xml) ==
  \/ \E p \in 1..Len(SESSION_EXPIRY_PATTERNS) :
        PatternTest(SESSION_EXPIRY_PATTERNS[p], xml)
  \/ LooksLikeHtml(xml)


(* --------------------------- response parsers -------------------------- *)
\* An optional field is <<>> when undefined and <<v>> when set.  A result
\* built without sessionExpired carries sessionExpired = FALSE.
Opt(v) == IF v = "" THEN <<>> ELSE <<v>>

\* one element pushed by the FPLsArray loop (the fields the dashboard's
\* action logic reads; the remaining text fields are extracted alike)
FlightPlanOf(fplXml) ==
  [flId |-> ParseIntOr0(getTagValue("FlId", fplXml)),
   arcid |-> getTagValue("ARCID", fplXml),
   flStatusCode |-> ParseIntOr0(getTagValue("FlStatusCode", fplXml)),
   flCanDo |-> ParseIntOr0(getTagValue("FlCanDo", fplXml))]

\* the flightPlans array built from the FPLsArray matches
FlightPlansOf(w) == [i \in 1..Len(w) |-> FlightPlanOf(w[i])]

parseFlightPlansResponse(xml) ==
  IF isSessionExpiredResponse(xml)
  THEN [isError |-> TRUE, sessionExpired |-> TRUE, fplsCount |-> 0,
        totalPages |-> 0, currentPage |-> 0, flightPlans |-> <<>>]
  ELSE [isError |-> getTagValue("IsError", xml) = "1",
        sessionExpired |-> FALSE,
        fplsCount |-> ParseIntOr0(getTagValue("FPLsCount", xml)),
        totalPages |-> ParseIntOr0(getTagValue("TotalPages", xml)),
        currentPage |-> ParseIntOr0(getTagValue("CurrentPage", xml)),
        flightPlans |-> FlightPlansOf(WrapperValuesFrom("FPLsArray", xml, 1))]

FlightMessageOf(msgXml) ==
  [flMsgId |-> ParseIntOr0(getTagValue("FlMsgId", msgXml)),
   isIncome |-> getTagValue("IsIncome", msgXml) = "1",
   msgType |-> getTagValue("MsgType", msgXml),
   statusCode |-> ParseIntOr0(getTagValue("StatusCode", msgXml))]

\* the messages array built from the MsgArray matches
FlightMessagesOf(w) == [i \in 1..Len(w) |-> FlightMessageOf(w[i])]

parseFlightMessagesResponse(xml) ==
  IF isSessionExpiredResponse(xml)
  THEN [isError |-> TRUE, sessionExpired |-> TRUE, msgCount |-> 0,
        messages |-> <<>>]
  ELSE [isError |-> getTagValue("IsError", xml) = "1",
        sessionExpired |-> FALSE,
        msgCount |-> ParseIntOr0(getTagValue("MsgCount", xml)),
        messages |-> FlightMessagesOf(WrapperValuesFrom("MsgArray", xml, 1))]

IsLetter(c) == Len(c) = 1 /\ Includes(Letters, LowerChar(c))
IsWordChar(c) == IsLetter(c) \/ IsDigit(c) \/ c = "_"

\* the character classes \d, \w and \s of the field-code pattern
InClass(c, class) ==
  CASE class = "d" -> IsDigit(c)
    [] class = "w" -> IsWordChar(c)
    [] class = "s" -> IsSpace(c)

\* last position of the run of characters of the class that starts at i
\* (i - 1 when the run is empty)
RunEnd(s, i, class) ==
  Least({ j \in i..Len(s) : ~InClass(Sub(s, j, j), class) }, Len(s) + 1) - 1

\* last position of the leading field code F\d+[a-z]? or FAddinfo\w+ (flag
\* i), 0 when the text starts with neither
FieldCodeEnd(t) ==
  LET Suffix(d) == IF IsLetter(Sub(t, d + 1, d + 1)) THEN d + 1 ELSE d
  IN IF StartsAtCI(t, 1, "f") /\ IsDigit(Sub(t, 2, 2))
     THEN Suffix(RunEnd(t, 2, "d"))
     ELSE IF StartsAtCI(t, 1, "faddinfo") /\ IsWordChar(Sub(t, 9, 9))
     THEN RunEnd(t, 9, "w")
     ELSE 0

FieldErrorOfGeneral(t) == [field |-> "General", message |-> t]

\* errorText.match(/^(F\d+[a-z]?|FAddinfo\w+)\s+(.+)$/i) and the FieldError
\* pushed for it
FieldErrorOf(t) ==
  LET Message(ce, we, ms) ==
        IF /\ ce > 0
           /\ we >= ce + 1
           /\ ms >= ce + 2
           /\ NoLineBreak(t, ms, Len(t))
        THEN [field |-> Sub(t, 1, ce), message |-> Sub(t, ms, Len(t))]
        ELSE [field |-> "General", message |-> t]
      Space(ce, we) == Message(ce, we, IF we < Len(t) THEN we + 1 ELSE we)
      Code(ce) == Space(ce, RunEnd(t, ce + 1, "s"))
  IN Code(FieldCodeEnd(t))

\* the elements of a sequence that are not the empty string
RECURSIVE NonEmpty(_)
NonEmpty(q) ==
  IF q = <<>> THEN <<>>
  ELSE IF Head(q) = "" THEN NonEmpty(Tail(q))
  ELSE <<Head(q)>> \o NonEmpty(Tail(q))

\* the fieldErrors array built from the FplErrors texts
FieldErrorsOf(texts) == [i \in 1..Len(texts) |-> FieldErrorOf(texts[i])]

parseValidationResponseNoRaw(xml) ==
  IF isSessionExpiredResponse(xml)
  THEN [isError |-> TRUE, sessionExpired |-> TRUE, fplIsOk |-> FALSE,
        errorMessages |-> <<>>, fieldErrors |-> <<>>, rawResponse |-> <<>>]
  ELSE [isError |-> getTagValue("IsError", xml) = "1",
        sessionExpired |-> FALSE,
        fplIsOk |-> getTagValue("FplIsOk", xml) = "1",
        errorMessages |-> NonEmpty(LeafValuesFrom("ErrMsg", xml, 1)),
        fieldErrors |-> FieldErrorsOf(NonEmpty(LeafValuesFrom("FplErrors", xml, 1))),
        rawResponse |-> <<>>]

parseValidationResponse(xml) ==
  IF isSessionExpiredResponse(xml)
  THEN [isError |-> TRUE, sessionExpired |-> TRUE, fplIsOk |-> FALSE,
        errorMessages |-> <<>>, fieldErrors |-> <<>>, rawResponse |-> <<>>]
  ELSE [isError |-> getTagValue("IsError", xml) = "1",
        sessionExpired |-> FALSE,
        fplIsOk |-> getTagValue("FplIsOk", xml) = "1",
        errorMessages |-> NonEmpty(LeafValuesFrom("ErrMsg", xml, 1)),
        fieldErrors |-> FieldErrorsOf(NonEmpty(LeafValuesFrom("FplErrors", xml, 1))),
        rawResponse |-> IF getTagValue("FplIsOk", xml) # "1" THEN <<xml>> ELSE <<>>]

TemplateItemOf(tplXml) ==
  [tplId |-> ParseIntOr0(getTagValue("TplId", tplXml)),
   tplName |-> getTagValue("TplName", tplXml)]

\* the templates array built from the FlTplArray matches
TemplateItemsOf(w) == [i \in 1..Len(w) |-> TemplateItemOf(w[i])]

parseTemplateListResponse(xml) ==
  IF isSessionExpiredResponse(xml)
  THEN [isError |-> TRUE, sessionExpired |-> TRUE, count |-> 0,
        templates |-> <<>>]
  ELSE [isError |-> getTagValue("IsError", xml) = "1",
        sessionExpired |-> FALSE,
        count |-> ParseIntOr0(getTagValue("FlTplCount", xml)),
        templates |-> TemplateItemsOf(WrapperValuesFrom("FlTplArray", xml, 1))]

\* the template record (identifying fields; the other fields are extracted
\* from valuesXml by the same getTagValue)
TemplateOf(valuesXml) ==
  [tplId |-> ParseIntOr0(getTagValue("TplId", valuesXml)),
   tplName |-> getTagValue("TplName", valuesXml),
   arcid |-> getTagValue("ARCID", valuesXml)]

parseTemplateResponse(xml) ==
  LET Result(isError, found, values) ==
        IF ~found \/ values = <<>>
        THEN [isError |-> isError, sessionExpired |-> FALSE, found |-> FALSE,
              template |-> <<>>]
        ELSE [isError |-> isError, sessionExpired |-> FALSE, found |-> TRUE,
              template |-> <<TemplateOf(values[1])>>]
  IN IF isSessionExpiredResponse(xml)
     THEN [isError |-> TRUE, sessionExpired |-> TRUE, found |-> FALSE,
           template |-> <<>>]
     ELSE Result(getTagValue("IsError", xml) = "1",
                 getTagValue("FlTplFound", xml) = "1",
                 WrapperValuesFrom("FlTplValues", xml, 1))

\* the positions at or after st where a closing Fault tag starts
FaultCloses(xml, st) ==
  UNION { { i \in OccurrencesCI(xml, c) : i >= st } :
          c \in {"</fault>", "</soap-env:fault>"} }

\* the text of a SOAP fault: /<(?:SOAP-ENV:)?Fault[^>]*>([\s\S]*?)<\/(?:SOAP-ENV:)?Fault>/i
FaultMatch(xml) ==
  LET Text(o) == <<Sub(xml, o[2] + 1, SetMin(FaultCloses(xml, o[2] + 1)) - 1)>>
      First(good) == IF good = {} THEN <<>> ELSE Text(Leftmost(good))
  IN First({ o \in UNION { { <<i, FirstChar(xml, ">", i + Len(t))>> :
                               i \in OccurrencesCI(xml, t) } :
                           t \in {"<fault", "<soap-env:fault"} } :
               o[2] <= Len(xml) /\ FaultCloses(xml, o[2] + 1) # {} })

\* errorMsg after the SOAP fault check
FaultMessage(errTag, fault) ==
  IF errTag # "" \/ fault = <<>> THEN errTag
  ELSE IF getTagValue("faultstring", fault[1]) # ""
  THEN getTagValue("faultstring", fault[1])
  ELSE "SOAP Fault"

parseSaveTemplateResponse(xml) ==
  LET Result(isError, success, errorMsg) ==
        [isError |-> isError, sessionExpired |-> FALSE, success |-> success,
         errorMessage |-> Opt(IF ~success /\ errorMsg = ""
                              THEN "Unknown error - check server logs for details"
                              ELSE errorMsg),
         rawResponse |-> IF ~success THEN <<xml>> ELSE <<>>]
      Success(isError, errorMsg) ==
        Result(isError, ~isError /\ getTagValue("InsertedTplId", xml) # "", errorMsg)
  IN IF isSessionExpiredResponse(xml)
     THEN [isError |-> TRUE, sessionExpired |-> TRUE, success |-> FALSE,
           errorMessage |-> <<>>, rawResponse |-> <<>>]
     ELSE Success(getTagValue("IsError", xml) = "1",
                  FaultMessage(getTagValue("ErrMsg", xml), FaultMatch(xml)))

parseSendFlightPlanResponse(xml) ==
  IF isSessionExpiredResponse(xml)
  THEN [isError |-> TRUE, sessionExpired |-> TRUE, fplIsSent |-> FALSE,
        errorMessage |-> <<>>]
  ELSE [isError |-> getTagValue("IsError", xml) = "1",
        sessionExpired |-> FALSE,
        fplIsSent |-> getTagValue("FplIsSent", xml) = "1",
        errorMessage |-> Opt(getTagValue("ErrMsg", xml))]

parseDeleteTemplateResponse(xml) ==
  LET Result(isError, deletedTplId) ==
        [isError |-> isError, sessionExpired |-> FALSE,
         success |-> ~isError /\ deletedTplId # 0,
         deletedTplId |-> deletedTplId,
         errorMessage |-> Opt(getTagValue("ErrMsg", xml))]
  IN IF isSessionExpiredResponse(xml)
     THEN [isError |-> TRUE, sessionExpired |-> TRUE, success |-> FALSE,
           deletedTplId |-> 0, errorMessage |-> <<>>]
     ELSE Result(getTagValue("IsError", xml) = "1",
                 ParseIntOr0(getTagValue("DeletedTplId", xml)))

parseActionResponse(xml) ==
  LET Result(isError, msgSent) ==
        [isError |-> isError, sessionExpired |-> FALSE,
         success |-> ~isError /\ msgSent,
         msgSent |-> msgSent,
         errorMessage |-> Opt(getTagValue("ErrMsg", xml))]
  IN IF isSessionExpiredResponse(xml)
     THEN [isError |-> TRUE, sessionExpired |-> TRUE, success |-> FALSE,
           msgSent |-> FALSE, errorMessage |-> <<>>]
     ELSE Result(getTagValue("IsError", xml) = "1",
                 getTagValue("MsgSent", xml) = "1")

(* ------------------------------ the state ------------------------------ *)
VARIABLES
  now,            \* Date.now(), in minutes
  nextSweep,      \* the minute at which the cleanup timer fires next
  sessions,       \* SessionStore.sessions: id -> HomebriefingSession
  pendingLogins,  \* SessionStore.pendingLogins: id -> PendingLogin
  usedIds,        \* the identifiers generateSessionId has returned so far
  reqs,           \* the request handlers suspended at an await
  lastRead,       \* id -> minute of its activation or last successful getSession
  loginOk,        \* ids for which submitLogin returned success
  expiredIds,     \* ids a handler answered 401 SESSION_EXPIRED for
  ev,             \* what the handler step taken in the current minute did
  pOp, pBody, pLen, pResult, \* the parser under check, its input (pLen tokens) and its result
  fOp, fIn, fOut, \* the helper function last called, its arguments and <<its result>>
  production,     \* process.env.NODE_ENV === 'production'
  globalStore,    \* globalThis.sessionStore is set
  timers,         \* the due minutes of the cleanup timers of the stores a later load replaced
  browser         \* the hb-session cookie the client holds: <<>> or <<[sid, expires]>>

vars == <<now, nextSweep, sessions, pendingLogins, usedIds, reqs, lastRead,
          loginOk, expiredIds, ev, pOp, pBody, pLen, pResult, fOp, fIn, fOut,
          production, globalStore, timers, browser>>

storeVars == <<sessions, pendingLogins, usedIds>>
hostVars == <<production, globalStore, timers, browser>>
parseVars == <<pOp, pBody, pLen, pResult, fOp, fIn, fOut, hostVars>>
histVars == <<lastRead, loginOk, expiredIds>>

Idle == [pc |-> "idle"]
NoEvent == [op |-> "none"]

(* ----------------------------- SessionStore ---------------------------- *)
StorePut(tbl, id, v) == [i \in (DOMAIN tbl) \cup {id} |-> IF i = id THEN v ELSE tbl[i]]
StoreDel(tbl, id) == [i \in (DOMAIN tbl) \ {id} |-> tbl[i]]

\* createPendingLogin: the table after the set
createPendingLogin(pl, id, cookies, token, t) ==
  StorePut(pl, id, [cookies |-> cookies, token |-> token, createdAt |-> t])

\* the expiry test of getPendingLogin and of cleanup
PendingExpired(p, t) == t - p.createdAt > PENDING_TIMEOUT

\* getPendingLogin returns an entry
PendingFound(pl, id, t) == id \in DOMAIN pl /\ ~PendingExpired(pl[id], t)

getPendingLoginKeeps(pl, id, t) == pl

\* the pending table after getPendingLogin
getPendingLogin(pl, id, t) ==
  IF id \in DOMAIN pl /\ PendingExpired(pl[id], t) THEN StoreDel(pl, id) ELSE pl

\* the expiry test of getSession and of cleanup
SessionExpired(sn, t) == t > sn.expiresAt

ExtendSessionNoSlide(sn, t) == sn

\* the "extend session on access" assignment of getSession
ExtendSession(sn, t) == [sn EXCEPT !.expiresAt = t + SESSION_TIMEOUT]

SessionFoundUnexpiring(ss, id, t) == id \in DOMAIN ss

\* getSession returns a session
SessionFound(ss, id, t) == id \in DOMAIN ss /\ ~SessionExpired(ss[id], t)

getSessionExtendsAny(ss, id, t) ==
  IF id \notin DOMAIN ss THEN ss
  ELSE StorePut(ss, id, ExtendSession(ss[id], t))

\* the session table after getSession
getSession(ss, id, t) ==
  IF id \notin DOMAIN ss THEN ss
  ELSE IF SessionExpired(ss[id], t) THEN StoreDel(ss, id)
  ELSE StorePut(ss, id, ExtendSession(ss[id], t))

activatePendingKeeps(pl, id) == pl

\* activateSession: the pending table and the session table afterwards
activatePending(pl, id) == StoreDel(pl, id)

activateSessionNoHandle(ss, id, cookies, token, userSession, t) ==
  StorePut(ss, id, [cookies |-> cookies, token |-> token, userSession |-> "",
                    expiresAt |-> t + SESSION_TIMEOUT])

activateSession(ss, id, cookies, token, userSession, t) ==
  StorePut(ss, id, [cookies |-> cookies, token |-> token,
                    userSession |-> userSession,
                    expiresAt |-> t + SESSION_TIMEOUT])

\* deleteSession removes the id from both tables
deleteSession(tbl, id) == StoreDel(tbl, id)

cleanupSessionsNone(ss, t) == ss

\* cleanup: the two loops
cleanupSessions(ss, t) ==
  [i \in { j \in DOMAIN ss : ~SessionExpired(ss[j], t) } |-> ss[i]]

cleanupPending(pl, t) ==
  [i \in { j \in DOMAIN pl : ~PendingExpired(pl[j], t) } |-> pl[i]]

\* the read times kept for the sessions that are still in the table ss
Forget(lr, ss) == [i \in (DOMAIN lr) \cap (DOMAIN ss) |-> lr[i]]


(* ------------------------- the portal's answers ------------------------ *)
SESSION_COOKIE == "__Host-IxoWeb-NL"

\* what login.php can answer to initLogin
InitResponses ==
  { [threw |-> TRUE, setCookie |-> "", html |-> ""] } \cup
  [threw : {FALSE},
   setCookie : { "", "lang=en; Path=/",
                 "__Host-IxoWeb-NL=s1; Path=/; Secure, lang=ZW4=; Path=/" },
   html : { "<html>", "AWLoginDataHandler.setToken(" \o Quote \o Quote \o ");",
            "AWLoginDataHandler.setToken(" \o Quote \o "t1" \o Quote \o ");" }]

\* what dataHandler.php?method=loginExt can answer
LoginResponses ==
  { [threw |-> TRUE, ok |-> FALSE, setCookie |-> "", text |-> ""],
    [threw |-> FALSE, ok |-> FALSE, setCookie |-> "", text |-> ""] } \cup
  [threw : {FALSE}, ok : {TRUE},
   setCookie : { "auth=a1; HttpOnly" },
   text : { "<LoginOK>1</LoginOK>", "<LoginOK>0</LoginOK>",
            "<IsError>1</IsError>" }]

AppHtml == "var a = new AppController(" \o Quote \o "t2" \o Quote \o ", "
             \o Quote \o "u1" \o Quote \o ", " \o Quote \o "/ixo" \o Quote \o ");"

\* what index.php can answer to the first GET (redirect: 'manual')
IndexResponses ==
  { [threw |-> TRUE, status |-> 0, location |-> "", setCookie |-> "", html |-> ""] } \cup
  [threw : {FALSE}, status : {200}, location : {""}, setCookie : {""},
   html : { AppHtml, "<html>login</html>" }] \cup
  [threw : {FALSE}, status : {302},
   location : { "", "/ixo/login.php", "/ixo/index.php?s=1" },
   setCookie : { "auth=a2; HttpOnly" }, html : {""}] \cup
  { [threw |-> FALSE, status |-> 301, location |-> "/ixo/login.php",
     setCookie |-> "", html |-> ""] }

\* what index.php can answer to the followed GET
RedirectResponses ==
  { [threw |-> TRUE, setCookie |-> "", html |-> ""] } \cup
  [threw : {FALSE}, setCookie : { "" },
   html : { AppHtml, "<html>login</html>" }]

OkBody == "<ns1:IsError>0</ns1:IsError><FPLsCount>1</FPLsCount>"
            \o "<FPLsArray><FlId>7</FlId><FlStatusCode>48</FlStatusCode></FPLsArray>"
            \o "<MsgSent>1</MsgSent><InsertedTplId>5</InsertedTplId>"
            \o "<DeletedTplId>5</DeletedTplId><FlTplFound>1</FlTplFound>"
            \o "<FlTplValues><TplId>5</TplId></FlTplValues>"

\* the bodies ibafProvider.php answers with in the request handlers
SoapBodies ==
  { OkBody,
    "<IsError>1</IsError><ErrMsg>failed</ErrMsg>",
    "<!DOCTYPE html><html><body>Login</body></html>",
    "<ErrMsg>Your session has expired</ErrMsg>" }

(* ------------------------------- Init ---------------------------------- *)
\* the module has been loaded once, in one of the modes
InitOf(modes) ==
  /\ now = 0
  /\ nextSweep = CLEANUP_INTERVAL
  /\ sessions = <<>>
  /\ pendingLogins = <<>>
  /\ usedIds = {}
  /\ reqs = [r \in Reqs |-> Idle]
  /\ lastRead = <<>>
  /\ loginOk = {}
  /\ expiredIds = {}
  /\ ev = NoEvent
  /\ pOp = "none" /\ pBody = "" /\ pLen = 0 /\ pResult = <<>>
  /\ fOp = "none" /\ fIn = <<>> /\ fOut = <<>>
  /\ production \in modes
  /\ globalStore = ~production
  /\ timers = <<>>
  /\ browser = <<>>

\* a production deployment
Init == InitOf({TRUE})

(* ------------------------------- time ---------------------------------- *)
\* a minute passes; the cleanup timer fires before the clock passes its due
\* minute
Tick(maxT) ==
  /\ now < maxT
  /\ now < nextSweep
  /\ \A i \in DOMAIN timers : now < timers[i]
  /\ now' = now + 1
  /\ ev' = NoEvent
  /\ UNCHANGED <<nextSweep, storeVars, reqs, histVars, parseVars>>

\* the setInterval callback: cleanup()
Cleanup ==
  /\ now = nextSweep
  /\ nextSweep' = now + CLEANUP_INTERVAL
  /\ sessions' = cleanupSessions(sessions, now)
  /\ pendingLogins' = cleanupPending(pendingLogins, now)
  /\ lastRead' = Forget(lastRead, cleanupSessions(sessions, now))
  /\ ev' = [op |-> "cleanup",
            sessions |-> DOMAIN sessions \ DOMAIN cleanupSessions(sessions, now),
            pending |-> DOMAIN pendingLogins \ DOMAIN cleanupPending(pendingLogins, now)]
  /\ UNCHANGED <<now, usedIds, reqs, loginOk, expiredIds, parseVars>>

(* ------------------------ POST /api/auth/init -------------------------- *)
InitLoginOkNoToken(resp) ==
  /\ ~resp.threw
  /\ MapHas(extractCookies(resp.setCookie), SESSION_COOKIE)

\* initLogin succeeds on this response: neither throw is taken
InitLoginOk(resp) ==
  /\ ~resp.threw
  /\ MapHas(extractCookies(resp.setCookie), SESSION_COOKIE)
  /\ TokenMatch(resp.html) # ""

\* generateSessionId: an identifier never returned before
generateSessionId(ids) == SetMin(ids \ usedIds)

InitRoute(ids, resp) ==
  /\ ids \ usedIds # {}
  /\ IF InitLoginOk(resp)
     THEN LET id == generateSessionId(ids)
              cookies == mergeCookies("", extractCookies(resp.setCookie))
          IN /\ usedIds' = usedIds \cup {id}
             /\ pendingLogins' = createPendingLogin(pendingLogins, id, cookies,
                                                    TokenMatch(resp.html), now)
             /\ ev' = [op |-> "init", status |-> 200, sid |-> id, resp |-> resp]
     ELSE /\ UNCHANGED <<usedIds, pendingLogins>>
          /\ ev' = [op |-> "init", status |-> 500, sid |-> NoSid, resp |-> resp]
  /\ UNCHANGED <<now, nextSweep, sessions, reqs, histVars, parseVars>>

(* --------------------- GET /api/auth/captcha --------------------------- *)
\* what a handler observes of its getPendingLogin call
PendingObs(sid) ==
  [present |-> sid \in DOMAIN pendingLogins,
   age |-> IF sid \in DOMAIN pendingLogins
           THEN now - pendingLogins[sid].createdAt ELSE 0 - 1,
   found |-> PendingFound(pendingLogins, sid, now)]

CaptchaRoute(sid, threw) ==
  /\ sid = NoSid => ~threw
  /\ pendingLogins' = IF sid = NoSid THEN pendingLogins
                      ELSE getPendingLogin(pendingLogins, sid, now)
  /\ ev' = [op |-> "captcha", sid |-> sid,
            status |-> IF sid = NoSid THEN 400
                       ELSE IF ~PendingFound(pendingLogins, sid, now) THEN 401
                       ELSE IF threw THEN 500 ELSE 200,
            obs |-> PendingObs(sid)]
  /\ UNCHANGED <<now, nextSweep, sessions, usedIds, reqs, histVars, parseVars>>

(* ---------------------- GET /api/auth/check ---------------------------- *)
\* what a handler observes of its getSession call
SessionObs(sid) ==
  [present |-> sid \in DOMAIN sessions,
   gap |-> IF sid \in DOMAIN lastRead THEN now - lastRead[sid] ELSE 0 - 1,
   found |-> SessionFound(sessions, sid, now)]

\* the effect of a handler's getSession call on the store and the history
DoGetSession(sid) ==
  /\ sessions' = getSession(sessions, sid, now)
  /\ lastRead' = IF SessionFound(sessions, sid, now)
                 THEN StorePut(lastRead, sid, now) ELSE StoreDel(lastRead, sid)

CheckRoute(sid) ==
  /\ IF sid = NoSid THEN UNCHANGED <<sessions, lastRead>> ELSE DoGetSession(sid)
  /\ ev' = [op |-> "check", sid |-> sid, status |-> 200, obs |-> SessionObs(sid)]
  /\ UNCHANGED <<now, nextSweep, pendingLogins, usedIds, reqs, loginOk,
                 expiredIds, parseVars>>

(* ---------------------- POST /api/auth/logout -------------------------- *)
LogoutRoute(sid) ==
  /\ sessions' = IF sid = NoSid THEN sessions ELSE deleteSession(sessions, sid)
  /\ pendingLogins' = IF sid = NoSid THEN pendingLogins
                      ELSE deleteSession(pendingLogins, sid)
  /\ lastRead' = StoreDel(lastRead, sid)
  /\ ev' = [op |-> "logout", sid |-> sid, status |-> 200]
  /\ UNCHANGED <<now, nextSweep, usedIds, reqs, loginOk, expiredIds, parseVars>>

(* ---------------------- POST /api/auth/login --------------------------- *)
LoginPcs == {"loginPost", "indexGet", "redirectGet"}

\* the index.php answer a finished login saw, <<>> when it never got one
NoIndex == <<>>

\* LoginResult values of submitLogin
LoginFailure(error) ==
  [success |-> FALSE, cookies |-> "", token |-> "", userSession |-> "",
   error |-> error]

LoginSuccess(cookies, token, userSession) ==
  [success |-> TRUE, cookies |-> cookies, token |-> token,
   userSession |-> userSession, error |-> ""]

LoginRouteProceedsAlways(result) == TRUE

\* the route's test after submitLogin returned: go on to activateSession
LoginRouteProceeds(result) == result.success

\* the first synchronous part of the handler: the required-field test,
\* getPendingLogin, and the login POST being issued
LoginStart(r, sid, fields) ==
  LET found == PendingFound(pendingLogins, sid, now)
      obs == PendingObs(sid)
  IN /\ reqs[r].pc = "idle"
     /\ fields # "ok" => sid = NoSid
     /\ fields = "ok" => sid # NoSid
     /\ IF fields = "ok"
        THEN /\ pendingLogins' = getPendingLogin(pendingLogins, sid, now)
             /\ reqs' = IF found
                        THEN [reqs EXCEPT ![r] =
                                [pc |-> "loginPost", sid |-> sid,
                                 cookies |-> pendingLogins[sid].cookies,
                                 token |-> pendingLogins[sid].token,
                                 trace |-> <<"loginPost">>, index |-> NoIndex]]
                        ELSE reqs
             /\ ev' = [op |-> "loginStart", sid |-> sid,
                       status |-> IF found THEN 0 ELSE 401, obs |-> obs]
        ELSE /\ UNCHANGED <<pendingLogins, reqs>>
             /\ ev' = [op |-> "loginStart", sid |-> sid,
                       status |-> IF fields = "missing" THEN 400 ELSE 500,
                       obs |-> obs]
     /\ UNCHANGED <<now, nextSweep, sessions, usedIds, histVars, parseVars>>

\* a fetch of submitLogin rejects: the route's catch answers 500
LoginThrows(r, idx) ==
  /\ reqs' = [reqs EXCEPT ![r] = Idle]
  /\ ev' = [op |-> "loginDone", sid |-> reqs[r].sid, status |-> 500,
            result |-> LoginFailure("Login failed"), trace |-> reqs[r].trace,
            index |-> idx, hadPending |-> reqs[r].sid \in DOMAIN pendingLogins,
            pendingLive |-> PendingFound(pendingLogins, reqs[r].sid, now)]
  /\ UNCHANGED <<now, nextSweep, storeVars, histVars, parseVars>>

\* submitLogin returned result: the rest of the route handler
LoginReturns(r, result, idx) ==
  LET sid == reqs[r].sid
  IN /\ reqs' = [reqs EXCEPT ![r] = Idle]
     /\ loginOk' = IF result.success THEN loginOk \cup {sid} ELSE loginOk
     /\ IF LoginRouteProceeds(result)
        THEN /\ pendingLogins' = activatePending(pendingLogins, sid)
             /\ sessions' = activateSession(sessions, sid, result.cookies,
                                            result.token, result.userSession, now)
             /\ lastRead' = StorePut(lastRead, sid, now)
             /\ ev' = [op |-> "loginDone", sid |-> sid, status |-> 200,
                       result |-> result, trace |-> reqs[r].trace, index |-> idx,
                       hadPending |-> sid \in DOMAIN pendingLogins,
                       pendingLive |-> PendingFound(pendingLogins, sid, now)]
        ELSE /\ UNCHANGED <<pendingLogins, sessions, lastRead>>
             /\ ev' = [op |-> "loginDone", sid |-> sid, status |-> 401,
                       result |-> result, trace |-> reqs[r].trace, index |-> idx,
                       hadPending |-> sid \in DOMAIN pendingLogins,
                       pendingLive |-> PendingFound(pendingLogins, sid, now)]
     /\ UNCHANGED <<now, nextSweep, usedIds, expiredIds, parseVars>>

\* the AppController extraction that ends submitLogin
ExtractSession(cookies, html) ==
  LET m == AppCtrlMatch(html)
  IN IF m = <<>>
     THEN LoginFailure("Failed to extract session data after login")
     ELSE LoginSuccess(cookies, m[1], m[2])

\* the login POST is answered
LoginPostResp(r, resp) ==
  /\ reqs[r].pc = "loginPost"
  /\ IF resp.threw THEN LoginThrows(r, NoIndex)
     ELSE IF ~resp.ok
     THEN LoginReturns(r, LoginFailure("Login request failed"), NoIndex)
     ELSE IF \/ Includes(resp.text, "<IsError>1</IsError>")
             \/ Includes(resp.text, "<LoginOK>0</LoginOK>")
     THEN LoginReturns(r, LoginFailure("Invalid credentials or captcha"), NoIndex)
     ELSE /\ reqs' = [reqs EXCEPT ![r] =
                        [@ EXCEPT !.pc = "indexGet",
                                  !.cookies = mergeCookies(@, extractCookies(resp.setCookie)),
                                  !.trace = Append(@, "indexGet")]]
          /\ ev' = [op |-> "loginStep", sid |-> reqs[r].sid,
                    sent |-> reqs[r].cookies, setCookie |-> resp.setCookie,
                    next |-> "indexGet",
                    cookies |-> mergeCookies(reqs[r].cookies,
                                             extractCookies(resp.setCookie))]
          /\ UNCHANGED <<now, nextSweep, storeVars, histVars, parseVars>>

RedirectsToLoginNever(resp) == FALSE

\* indexResponse.status === 302 && location?.includes('login.php')
RedirectsToLogin(resp) ==
  resp.status = 302 /\ Includes(resp.location, "login.php")

\* the first GET of index.php is answered
IndexResp(r, resp) ==
  LET cookies == mergeCookies(reqs[r].cookies, extractCookies(resp.setCookie))
      idx == <<[status |-> resp.status, location |-> resp.location]>>
  IN /\ reqs[r].pc = "indexGet"
     /\ IF resp.threw THEN LoginThrows(r, NoIndex)
        ELSE IF RedirectsToLogin(resp)
        THEN LoginReturns(r, LoginFailure("Login failed - redirected back to login"), idx)
        ELSE IF resp.status = 302
        THEN /\ reqs' = [reqs EXCEPT ![r] =
                           [@ EXCEPT !.pc = "redirectGet",
                                     !.cookies = cookies,
                                     !.trace = Append(@, "redirectGet"),
                                     !.index = idx]]
             /\ ev' = [op |-> "loginStep", sid |-> reqs[r].sid,
                       sent |-> reqs[r].cookies, setCookie |-> resp.setCookie,
                       next |-> "redirectGet", cookies |-> cookies]
             /\ UNCHANGED <<now, nextSweep, storeVars, histVars, parseVars>>
        ELSE LoginReturns(r, ExtractSession(cookies, resp.html), idx)

\* the followed GET of index.php is answered
RedirectResp(r, resp) ==
  LET cookies == mergeCookies(reqs[r].cookies, extractCookies(resp.setCookie))
  IN /\ reqs[r].pc = "redirectGet"
     /\ IF resp.threw THEN LoginThrows(r, reqs[r].index)
        ELSE LoginReturns(r, ExtractSession(cookies, resp.html), reqs[r].index)

(* ------------------------ the SOAP request handlers -------------------- *)
SoapKinds == {"list", "messages", "tplList", "tplSave", "tplGet", "tplDelete",
              "send", "delay"}

\* how the handler's own reading of the request can end before the SOAP call:
\* "invalid" is its 400 answer, "throws" a rejected request.json()
RequestInputs(kind) ==
  CASE kind \in {"list", "tplList"} -> {"ok"}
    [] kind \in {"messages", "tplGet", "tplDelete"} -> {"ok", "invalid"}
    [] kind = "send" -> {"ok", "throws"}
    [] OTHER -> {"ok", "invalid", "throws"}

\* the parser the client method behind each handler applies
ParseFor(kind, xml) ==
  CASE kind = "list" -> parseFlightPlansResponse(xml)
    [] kind = "messages" -> parseFlightMessagesResponse(xml)
    [] kind = "tplList" -> parseTemplateListResponse(xml)
    [] kind = "tplSave" -> parseSaveTemplateResponse(xml)
    [] kind = "tplGet" -> parseTemplateResponse(xml)
    [] kind = "tplDelete" -> parseDeleteTemplateResponse(xml)
    [] kind = "send" -> parseSendFlightPlanResponse(xml)
    [] kind = "delay" -> parseActionResponse(xml)
    [] kind = "validate" -> parseValidationResponse(xml)

\* the parsers applied to the bodies the handlers are answered with
SoapResults == [k \in SoapKinds |-> [b \in SoapBodies |-> ParseFor(k, b)]]

\* the handler's test of result.sessionExpired
HandlerSeesExpiry(result) == result.sessionExpired

\* the status a handler answers with when the session has not expired
StatusFor(kind, result) ==
  CASE kind \in {"list", "messages", "tplList"} ->
         IF result.isError THEN 500 ELSE 200
    [] kind \in {"tplSave", "tplDelete"} ->
         IF result.isError \/ ~result.success THEN 500 ELSE 200
    [] kind = "tplGet" ->
         IF result.isError THEN 500 ELSE IF ~result.found THEN 404 ELSE 200
    [] OTHER -> 200

\* the first synchronous part: the cookie test, getSession, the handler's
\* own request checks, and the SOAP POST being issued
SoapStart(r, kind, sid, input) ==
  LET obs == SessionObs(sid)
      status == IF sid = NoSid \/ ~obs.found THEN 401
                ELSE IF input = "invalid" THEN 400
                ELSE IF input = "throws" THEN 500 ELSE 0
  IN /\ reqs[r].pc = "idle"
     /\ input \in RequestInputs(kind)
     /\ IF sid = NoSid THEN UNCHANGED <<sessions, lastRead>> ELSE DoGetSession(sid)
     /\ reqs' = IF status = 0
                THEN [reqs EXCEPT ![r] = [pc |-> "soap", kind |-> kind, sid |-> sid]]
                ELSE reqs
     /\ ev' = [op |-> "soapStart", sid |-> sid, status |-> status, obs |-> obs]
     /\ UNCHANGED <<now, nextSweep, pendingLogins, usedIds, loginOk, expiredIds,
                    parseVars>>

\* the rest of a handler once its client method returned result, or threw
SoapAnswered(r, kind, sid, threw, http, result) ==
  /\ reqs[r].pc = "soap"
  /\ reqs' = [reqs EXCEPT ![r] = Idle]
  /\ IF threw
     THEN /\ ev' = [op |-> "soapDone", sid |-> sid, status |-> 500,
                    threw |-> TRUE, http |-> 0, sessionExpired |-> FALSE]
          /\ UNCHANGED <<sessions, pendingLogins, lastRead, expiredIds>>
     ELSE IF HandlerSeesExpiry(result)
     THEN /\ sessions' = deleteSession(sessions, sid)
          /\ pendingLogins' = deleteSession(pendingLogins, sid)
          /\ lastRead' = StoreDel(lastRead, sid)
          /\ expiredIds' = expiredIds \cup {sid}
          /\ ev' = [op |-> "soapDone", sid |-> sid, status |-> 401,
                    threw |-> FALSE, http |-> http,
                    sessionExpired |-> result.sessionExpired]
     ELSE /\ ev' = [op |-> "soapDone", sid |-> sid,
                    status |-> StatusFor(kind, result), threw |-> FALSE,
                    http |-> http, sessionExpired |-> result.sessionExpired]
          /\ UNCHANGED <<sessions, pendingLogins, lastRead, expiredIds>>
  /\ UNCHANGED <<now, nextSweep, usedIds, loginOk, parseVars>>

\* the SOAP POST is answered with HTTP status http and body xml, or rejects;
\* the client methods read response.text() whatever the status is
SoapDone(r, threw, http, xml) ==
  /\ reqs[r].pc = "soap"
  /\ SoapAnswered(r, reqs[r].kind, reqs[r].sid, threw, http,
                  SoapResults[reqs[r].kind][xml])

(* ------------------------------- Next ---------------------------------- *)
\* the slot a new request takes: the lowest one not in use
FreeSlot(slots) == Least({ r \in slots : reqs[r].pc = "idle" }, 0)

\* the steps of the system with session identifiers ids, request slots
\* slots, the SOAP handlers kinds and a clock that stops at maxT
NextOf(ids, slots, kinds, maxT) ==
  \/ Tick(maxT)
  \/ Cleanup
  \/ \E resp \in InitResponses : InitRoute(ids, resp)
  \/ \E sid \in ids \cup {NoSid}, threw \in BOOLEAN : CaptchaRoute(sid, threw)
  \/ \E sid \in ids \cup {NoSid} : CheckRoute(sid)
  \/ \E sid \in ids \cup {NoSid} : LogoutRoute(sid)
  \/ \E r \in slots, sid \in ids \cup {NoSid}, f \in {"ok", "missing", "throws"} :
        r = FreeSlot(slots) /\ LoginStart(r, sid, f)
  \/ \E r \in slots, resp \in LoginResponses : LoginPostResp(r, resp)
  \/ \E r \in slots, resp \in IndexResponses : IndexResp(r, resp)
  \/ \E r \in slots, resp \in RedirectResponses : RedirectResp(r, resp)
  \/ \E r \in slots, kind \in kinds, sid \in ids \cup {NoSid},
        input \in {"ok", "invalid", "throws"} :
        r = FreeSlot(slots) /\ SoapStart(r, kind, sid, input)
  \/ \E r \in slots, threw \in BOOLEAN, http \in {200, 503}, xml \in SoapBodies :
        SoapDone(r, threw, http, xml)

\* concurrent requests on one session identifier, over the first MaxTime
\* minutes
Next == NextOf(Ids, Reqs, {"list", "tplSave"}, MaxTime)

Spec == Init /\ [][Next]_vars

\* one identifier and one request at a time, followed for MaxClock minutes
NextClock == NextOf(Ids, {1}, SoapKinds, MaxClock)

SpecClock == Init /\ [][NextClock]_vars

(* ------------------------ the module loaded again ---------------------- *)
\* the module body runs again in the same process: the store kept on
\* globalThis is exported again, or else a new SessionStore is constructed,
\* whose constructor starts its own interval; the store it replaces keeps the
\* timer it has, and the export is saved on globalThis outside production
LoadModule ==
  /\ Len(timers) < MaxLoads
  /\ IF globalStore
     THEN UNCHANGED <<nextSweep, sessions, pendingLogins, lastRead, timers>>
     ELSE /\ timers' = Append(timers, nextSweep)
          /\ nextSweep' = now + CLEANUP_INTERVAL
          /\ sessions' = <<>>
          /\ pendingLogins' = <<>>
          /\ lastRead' = <<>>
  /\ globalStore' = (globalStore \/ ~production)
  /\ ev' = [op |-> "load", built |-> ~globalStore]
  /\ UNCHANGED <<now, usedIds, reqs, loginOk, expiredIds, pOp, pBody, pLen, pResult,
                 fOp, fIn, fOut, production, browser>>

\* the setInterval callback of a store that was replaced: cleanup() on its
\* own tables
TimerFires(i) ==
  /\ now = timers[i]
  /\ timers' = [timers EXCEPT ![i] = now + CLEANUP_INTERVAL]
  /\ ev' = [op |-> "cleanupReplaced"]
  /\ UNCHANGED <<now, nextSweep, storeVars, reqs, histVars, pOp, pBody, pLen, pResult,
                 fOp, fIn, fOut, production, globalStore, browser>>

\* a process in either mode whose store module is loaded again, with logins
\* being started in between
NextLoad ==
  \/ Tick(MaxClock)
  \/ Cleanup
  \/ LoadModule
  \/ \E i \in DOMAIN timers : TimerFires(i)
  \/ \E resp \in InitResponses : InitRoute(Ids, resp)

SpecLoad == InitOf(BOOLEAN) /\ [][NextLoad]_vars

(* ------------------------- the client's cookie -------------------------- *)
\* the hb-session cookie the client sends: none once Max-Age has run out
HbSession ==
  IF browser # <<>> /\ now < browser[1].expires THEN browser[1].sid ELSE NoSid

\* the client takes the cookie change of the answer it just got: the login
\* handler's cookieStore.set with maxAge, and the delete of the logout
\* handler and of a handler that answered 401 SESSION_EXPIRED; no other
\* answer carries the cookie
BrowserReceives ==
  /\ \/ /\ ev.op = "loginDone" /\ ev.status = 200
        /\ browser' = <<[sid |-> ev.sid, expires |-> now + COOKIE_MAX_AGE]>>
     \/ /\ \/ ev.op = "logout"
           \/ ev.op = "soapDone" /\ ev.status = 401
        /\ browser' = <<>>
  /\ browser' # browser
  /\ UNCHANGED <<now, nextSweep, storeVars, reqs, histVars, ev, pOp, pBody, pLen,
                 pResult, fOp, fIn, fOut, production, globalStore, timers>>

\* one client that logs in and then sends its requests with the cookie it
\* holds, followed for MaxClock minutes
NextBrowser ==
  \/ Tick(MaxClock)
  \/ Cleanup
  \/ BrowserReceives
  \/ \E resp \in InitResponses : InitRoute(Ids, resp)
  \/ \E sid \in Ids : LoginStart(1, sid, "ok")
  \/ \E resp \in LoginResponses : LoginPostResp(1, resp)
  \/ \E resp \in IndexResponses : IndexResp(1, resp)
  \/ \E resp \in RedirectResponses : RedirectResp(1, resp)
  \/ CheckRoute(HbSession)
  \/ LogoutRoute(HbSession)
  \/ SoapStart(1, "list", HbSession, "ok")
  \/ \E threw \in BOOLEAN, http \in {200, 503}, xml \in SoapBodies :
        SoapDone(1, threw, http, xml)

SpecBrowser == Init /\ [][NextBrowser]_vars

(* ------------------- the response parsers on their own ----------------- *)
\* the client methods that parse a SOAP response
ParserOps == SoapKinds \cup {"validate"}

\* the pieces response bodies are put together from
BodyTokens ==
  { "<!DOCTYPE html", "<!doctype html", "Session Expired", "sEsSiOn eXpIrEd",
    "Session", "\n", "expired",
    "<IsError>0</IsError>",
    "<FPLsCount>2</FPLsCount><MsgCount>2</MsgCount><FlTplCount>2</FlTplCount>",
    "<MsgSent>1</MsgSent><FplIsSent>1</FplIsSent><FplIsOk>1</FplIsOk>"
      \o "<InsertedTplId>5</InsertedTplId><DeletedTplId>5</DeletedTplId>",
    "<FlTplFound>1</FlTplFound><FlTplValues><TplId>5</TplId></FlTplValues>"
      \o "<FPLsArray><FlId>7</FlId></FPLsArray><ErrMsg>bad</ErrMsg>" }

\* a client method is about to parse the body the portal answered with
ChooseParser(op) ==
  /\ pOp = "none"
  /\ pOp' = op
  /\ UNCHANGED <<now, nextSweep, storeVars, reqs, histVars, ev, pBody, pLen, pResult,
                 fOp, fIn, fOut, hostVars>>

\* the body received grows by one piece
AppendToken(tok) ==
  /\ pResult = <<>>
  /\ pLen < MaxBodyLen
  /\ pBody' = pBody \o tok
  /\ pLen' = pLen + 1
  /\ UNCHANGED <<now, nextSweep, storeVars, reqs, histVars, ev, pOp, pResult,
                 fOp, fIn, fOut, hostVars>>

\* return this.parse...Response(xmlText)
Parse ==
  /\ pOp # "none"
  /\ pResult = <<>>
  /\ pResult' = <<ParseFor(pOp, pBody)>>
  /\ UNCHANGED <<now, nextSweep, storeVars, reqs, histVars, ev, pOp, pBody, pLen,
                 fOp, fIn, fOut, hostVars>>

NextParse ==
  \/ \E op \in ParserOps : ChooseParser(op)
  \/ \E tok \in BodyTokens : AppendToken(tok)
  \/ Parse

SpecParse == Init /\ [][NextParse]_vars

(* --------------------- the helper functions on their own --------------- *)
\* the cookie maps extractCookies can return with at most n cookies: trimmed
\* names, and values that may be empty after the trim or contain "="
CookieMaps(n) ==
  LET Pairs == { <<k, v>> : k \in {"sid", "lang"}, v \in {"1", "2", "", "YQ=="} }
  IN { m \in UNION { [1..k -> Pairs] : k \in 0..n } :
         \A i, j \in 1..Len(m) : m[i][1] = m[j][1] => i = j }

\* str.replace(/c/g, by) for a one-character pattern c
RECURSIVE ReplaceAll(_, _, _)
ReplaceAll(str, c, by) ==
  IF Len(str) = 0 THEN ""
  ELSE (IF Sub(str, 1, 1) = c THEN by ELSE Sub(str, 1, 1))
         \o ReplaceAll(Sub(str, 2, Len(str)), c, by)

escapeXml(str) ==
  ReplaceAll(ReplaceAll(ReplaceAll(ReplaceAll(ReplaceAll(str,
    "&", "&amp;"), "<", "&lt;"), ">", "&gt;"), Quote, "&quot;"), "'", "&apos;")

\* the part of a request envelope that carries caller-supplied text: the
\* ARCID filter of GetFPLListRequest, the template name and the Field 19
\* endurance of SaveFlTplRequest, the ARCID of the validation request
soapRequest(method, text) ==
  CASE method = "getCurrentFlightPlans" ->
         "<mob:GetFPLListRequest><mob:ARCID>" \o text
           \o "</mob:ARCID></mob:GetFPLListRequest>"
    [] method = "saveTemplate" ->
         "<mob:SaveFlTplRequest><mob:FlTplValues><TplName>" \o escapeXml(text)
           \o "</TplName><Endurance>" \o text
           \o "</Endurance></mob:FlTplValues></mob:SaveFlTplRequest>"
    [] method = "validateFlightPlan" ->
         "<mob:CheckFplValidityRequest><mob:FlAttributes><ARCID>" \o escapeXml(text)
           \o "</ARCID></mob:FlAttributes></mob:CheckFplValidityRequest>"

\* a & b on non-negative integers
RECURSIVE BitAnd(_, _)
BitAnd(a, b) ==
  IF a = 0 \/ b = 0 THEN 0
  ELSE (a % 2) * (b % 2) + 2 * BitAnd(a \div 2, b \div 2)

canPerformActionsAnyStatus(statusCode, flCanDo) ==
  IF BitAnd(flCanDo, 7) = 7 THEN FALSE
  ELSE IF BitAnd(flCanDo, 4) = 4 THEN FALSE
  ELSE IF BitAnd(flCanDo, 16) = 16 THEN FALSE
  ELSE IF BitAnd(flCanDo, 3) = 3 THEN TRUE
  ELSE IF BitAnd(flCanDo, 1) = 1 THEN TRUE
  ELSE FALSE

canPerformActionsNo16(statusCode, flCanDo) ==
  IF statusCode # 48 /\ statusCode # 53 THEN FALSE
  ELSE IF BitAnd(flCanDo, 7) = 7 THEN FALSE
  ELSE IF BitAnd(flCanDo, 4) = 4 THEN FALSE
  ELSE IF BitAnd(flCanDo, 3) = 3 THEN TRUE
  ELSE IF BitAnd(flCanDo, 1) = 1 THEN TRUE
  ELSE FALSE

canPerformActionsNoDisable(statusCode, flCanDo) ==
  IF statusCode # 48 /\ statusCode # 53 THEN FALSE
  ELSE IF BitAnd(flCanDo, 16) = 16 THEN FALSE
  ELSE IF BitAnd(flCanDo, 3) = 3 THEN TRUE
  ELSE IF BitAnd(flCanDo, 1) = 1 THEN TRUE
  ELSE FALSE

canPerformActionsNever(statusCode, flCanDo) == FALSE

canPerformActions(statusCode, flCanDo) ==
  IF statusCode # 48 /\ statusCode # 53 THEN FALSE
  ELSE IF BitAnd(flCanDo, 7) = 7 THEN FALSE
  ELSE IF BitAnd(flCanDo, 4) = 4 THEN FALSE
  ELSE IF BitAnd(flCanDo, 16) = 16 THEN FALSE
  ELSE IF BitAnd(flCanDo, 3) = 3 THEN TRUE
  ELSE IF BitAnd(flCanDo, 1) = 1 THEN TRUE
  ELSE FALSE

\* the state-changing actions FlightPlanDetailModal offers for a flight plan:
\* the Delay (DLA) and Cancel (CNL) buttons, the only ones it has
ActionButtons(isArchive, statusCode, flCanDo) ==
  IF ~isArchive /\ canPerformActions(statusCode, flCanDo)
  THEN {"delay", "cancel"} ELSE {}

(* --------------------------- Field 18 codec ---------------------------- *)
\* data.stayInfo has one slot for each of STAYINFO1..STAYINFO9
StayInfoSlots == 9

\* A Field18Data is a record with sts and pbn (sequences of codes), per,
\* eurProtected, rfp, stayInfo (a sequence of StayInfoSlots strings) and
\* textFields, a Record<string, string> kept as a sequence of <<code, value>>
\* pairs in insertion order, which is the order of Object.entries for codes
\* that are not all digits.
buildField18String(data) ==
  LET RECURSIVE Join(_, _)
      Join(q, sep) == IF q = <<>> THEN ""
                      ELSE IF Len(q) = 1 THEN q[1]
                      ELSE q[1] \o sep \o Join(Tail(q), sep)
      When(c, part) == IF c THEN <<part>> ELSE <<>>
      RECURSIVE TextParts(_)
      TextParts(m) ==
        IF m = <<>> THEN <<>>
        ELSE When(m[1][2] # "", m[1][1] \o "/" \o m[1][2]) \o TextParts(Tail(m))
      RECURSIVE StayParts(_)
      StayParts(index) ==
        IF index >= Len(data.stayInfo) THEN <<>>
        ELSE When(data.stayInfo[index + 1] # "",
                  "STAYINFO" \o Digits[index + 2] \o "/" \o data.stayInfo[index + 1])
               \o StayParts(index + 1)
  IN Join(When(Len(data.sts) > 0, "STS/" \o Join(data.sts, " "))
          \o When(Len(data.pbn) > 0, "PBN/" \o Join(data.pbn, ""))
          \o When(data.eurProtected, "EUR/PROTECTED")
          \o When(data.per # "", "PER/" \o data.per)
          \o When(data.rfp # "", "RFP/" \o data.rfp)
          \o TextParts(data.textFields)
          \o StayParts(0), " ")

\* str.match(/([A-Z0-9]+)\/([^ ]+(?:\s+[^ /]+)*?)(?=\s+[A-Z0-9]+\/|$)/g) from
\* position from on: the matched substrings, left to right. A match that
\* starts at s is the code, the run of [A-Z0-9] from s, which "/" must
\* follow; a first word of characters other than " ", the longest that lets
\* the rest match; then as few further words (white space, then characters
\* other than " " and "/") as bring it to a place where the lookahead holds:
\* the end of the string, or white space, a code and "/". Among the ways to
\* take one further word the longer white space and then the longer word
\* are tried first. A match that starts inside a run of [A-Z0-9] has the
\* same code end and the same value as the one that starts the run, so the
\* leftmost match starts a run.
RECURSIVE Field18Matches(_, _)
Field18Matches(str, from) ==
  LET n == Len(str)
      Ch(i) == Sub(str, i, i)
      In(c, class) ==
        CASE class = "code" -> IsDigit(c) \/ Includes(Capitals, c)
          [] class = "space" -> IsSpace(c)
          [] class = "first" -> c # " "
          [] class = "word" -> c # " " /\ c # "/"
      \* last position of the run of the class that starts at i (i - 1 when
      \* the run is empty)
      RECURSIVE Run(_, _)
      Run(i, class) == IF i <= n /\ In(Ch(i), class) THEN Run(i + 1, class)
                       ELSE i - 1
      AheadOf(k, c) == c >= k + 1 /\ Ch(c + 1) = "/"
      Ahead(q) == q = n \/ \E k \in (q + 1)..Run(q + 1, "space") :
                              AheadOf(k, Run(k + 1, "code"))
      Before(a, b) == a[1] > b[1] \/ (a[1] = b[1] /\ a[2] >= b[2])
      Found(tries) == { t \in tries : t[3] # 0 }
      Best(g) == IF g = {} THEN 0
                 ELSE (CHOOSE a \in g : \A b \in g : Before(a, b))[3]
      RECURSIVE Words(_)
      Words(q) ==
        IF Ahead(q) THEN q
        ELSE Best(Found(UNION { { <<k, w, Words(w)>> : w \in (k + 1)..Run(k + 1, "word") } :
                                 k \in (q + 1)..Run(q + 1, "space") }))
      First(v) == Best(Found({ <<0, q, Words(q)>> : q \in v..Run(v, "first") }))
      MatchEnd(e) == IF Ch(e + 1) = "/" THEN First(e + 2) ELSE 0
      RECURSIVE Scan(_)
      Scan(s) ==
        LET Try(e, end) ==
              IF end # 0
              THEN <<Sub(str, s, end)>> \o Field18Matches(str, end + 1)
              ELSE Scan(IF e >= s THEN e + 1 ELSE s + 1)
            Code(e) == Try(e, IF e >= s THEN MatchEnd(e) ELSE 0)
        IN IF s > n THEN <<>> ELSE Code(Run(s, "code"))
  IN Scan(from)

parseField18String(str) ==
  LET empty == [sts |-> <<>>, pbn |-> <<>>, per |-> "", eurProtected |-> FALSE,
                rfp |-> "", stayInfo |-> [i \in 1..StayInfoSlots |-> ""],
                textFields |-> <<>>]
      RECURSIVE Filter(_)
      Filter(q) == IF q = <<>> THEN <<>>
                   ELSE (IF q[1] = "" THEN <<>> ELSE <<q[1]>>) \o Filter(Tail(q))
      \* value.match(/[A-Z]\d/g) || []
      RECURSIVE PbnCodes(_)
      PbnCodes(v) ==
        IF Len(v) < 2 THEN <<>>
        ELSE IF Includes(Capitals, Sub(v, 1, 1)) /\ IsDigit(Sub(v, 2, 2))
             THEN <<Sub(v, 1, 2)>> \o PbnCodes(Sub(v, 3, Len(v)))
             ELSE PbnCodes(Sub(v, 2, Len(v)))
      Stay(data, num, value) ==
        IF num >= 1 /\ num <= StayInfoSlots
        THEN [data EXCEPT !.stayInfo[num] = value] ELSE data
      Token(data, code, value) ==
        IF code = "STS" THEN [data EXCEPT !.sts = Filter(Split(value, " "))]
        ELSE IF code = "PBN" THEN [data EXCEPT !.pbn = PbnCodes(value)]
        ELSE IF code = "PER" THEN [data EXCEPT !.per = value]
        ELSE IF code = "EUR" /\ value = "PROTECTED"
             THEN [data EXCEPT !.eurProtected = TRUE]
        ELSE IF code = "RFP" THEN [data EXCEPT !.rfp = value]
        ELSE IF Sub(code, 1, 8) = "STAYINFO"
             THEN Stay(data, ParseIntOr0(Sub(code, 9, Len(code))), value)
        ELSE [data EXCEPT !.textFields = MapSet(@, code, value)]
      Split1(data, match, slashIndex) ==
        Token(data, Sub(match, 1, slashIndex - 1),
              Sub(match, slashIndex + 1, Len(match)))
      RECURSIVE Each(_, _)
      Each(data, matches) ==
        IF matches = <<>> THEN data
        ELSE Each(Split1(data, matches[1], FirstChar(matches[1], "/", 1)),
                  Tail(matches))
  IN IF str = "" THEN empty ELSE Each(empty, Field18Matches(str, 1))

(* --------------------------- Field 19 codec ---------------------------- *)
defaultField19Data ==
  [endurance |-> "", persons |-> "",
   radioUhf |-> FALSE, radioVhf |-> TRUE, radioElba |-> TRUE,
   survivalPolar |-> FALSE, survivalDesert |-> FALSE,
   survivalMaritime |-> FALSE, survivalJungle |-> FALSE,
   jacketsLight |-> FALSE, jacketsFluores |-> FALSE,
   jacketsUhf |-> FALSE, jacketsVhf |-> FALSE,
   dinghiesEnabled |-> FALSE, dinghiesNumber |-> "", dinghiesCapacity |-> "",
   dinghiesCover |-> FALSE, dinghiesColour |-> "",
   aircraftColour |-> "", remarks |-> "", pilotInCommand |-> ""]

buildField19String(data) ==
  LET RECURSIVE Join(_, _)
      Join(q, sep) == IF q = <<>> THEN ""
                      ELSE IF Len(q) = 1 THEN q[1]
                      ELSE q[1] \o sep \o Join(Tail(q), sep)
      When(c, part) == IF c THEN <<part>> ELSE <<>>
      Group(code, letters) ==
        When(Len(letters) > 0, code \o "\\" \o Join(letters, ""))
      radio == When(data.radioUhf, "U") \o When(data.radioVhf, "V")
                 \o When(data.radioElba, "E")
      survival == When(data.survivalPolar, "P") \o When(data.survivalDesert, "D")
                    \o When(data.survivalMaritime, "M")
                    \o When(data.survivalJungle, "J")
      jackets == When(data.jacketsLight, "L") \o When(data.jacketsFluores, "F")
                   \o When(data.jacketsUhf, "U") \o When(data.jacketsVhf, "V")
      dPart == "D\\" \o data.dinghiesNumber
                 \o (IF data.dinghiesCapacity # "" THEN " " \o data.dinghiesCapacity ELSE "")
                 \o (IF data.dinghiesCover THEN " C" ELSE "")
                 \o (IF data.dinghiesColour # "" THEN " " \o data.dinghiesColour ELSE "")
  IN Join(When(data.endurance # "", "E\\" \o data.endurance)
          \o When(data.persons # "", "P\\" \o data.persons)
          \o Group("R", radio) \o Group("S", survival) \o Group("J", jackets)
          \o When(data.dinghiesEnabled /\ data.dinghiesNumber # "", dPart)
          \o When(data.aircraftColour # "", "A\\" \o data.aircraftColour)
          \o When(data.remarks # "", "N\\" \o data.remarks)
          \o When(data.pilotInCommand # "", "C\\" \o data.pilotInCommand), " ")

\* The loop over /([A-Z])\\([^ ]*)/g: each match is a capital letter, a
\* backslash and the characters up to the next " "; the search resumes after
\* the match. indexOf is 0 here when the text does not occur, one more than
\* the index of JavaScript otherwise, which leaves the comparison as it is.
parseField19String(str) ==
  LET n == Len(str)
      Starts(i) == Includes(Capitals, Sub(str, i, i)) /\ Sub(str, i + 1, i + 1) = "\\"
      indexOf(p) == Least(Occurrences(str, p), 0)
      Has(value, c) == Includes(value, c)
      Token(data, code, value) ==
        CASE code = "E" -> [data EXCEPT !.endurance = value]
          [] code = "P" -> [data EXCEPT !.persons = value]
          [] code = "R" -> [data EXCEPT !.radioUhf = Has(value, "U"),
                                        !.radioVhf = Has(value, "V"),
                                        !.radioElba = Has(value, "E")]
          [] code = "S" -> [data EXCEPT !.survivalPolar = Has(value, "P"),
                                        !.survivalDesert = Has(value, "D"),
                                        !.survivalMaritime = Has(value, "M"),
                                        !.survivalJungle = Has(value, "J")]
          [] code = "J" -> [data EXCEPT !.jacketsLight = Has(value, "L"),
                                        !.jacketsFluores = Has(value, "F"),
                                        !.jacketsUhf = Has(value, "U"),
                                        !.jacketsVhf = Has(value, "V")]
          [] code = "D" -> [data EXCEPT !.dinghiesEnabled = TRUE,
                                        !.dinghiesNumber = value]
          [] code = "A" -> [data EXCEPT !.aircraftColour = value]
          [] code = "N" -> [data EXCEPT !.remarks = value]
          [] code = "C" -> IF indexOf("C\\" \o value) > indexOf("D\\")
                           THEN [data EXCEPT !.pilotInCommand = value]
                           ELSE [data EXCEPT !.dinghiesCover = TRUE]
          [] OTHER -> data
      RECURSIVE Exec(_, _)
      Exec(data, lastIndex) ==
        LET At(i, end) ==
              IF i = 0 THEN data
              ELSE Exec(Token(data, Sub(str, i, i), Sub(str, i + 2, end)), end + 1)
            From(i) == At(i, IF i = 0 THEN 0 ELSE FirstChar(str, " ", i + 2) - 1)
        IN From(Least({ i \in lastIndex..(n - 1) : Starts(i) }, 0))
  IN IF str = "" THEN defaultField19Data ELSE Exec(defaultField19Data, 1)

\* The form's use of the codecs. Applying the Field 18 editor encodes its
\* data into the form's text, and opening the editor decodes that text
\* again (handleField18Apply, openField18Modal), as loading a template
\* decodes the template's text. The form encodes its Field 19 data
\* (updateField19); parseField19String is the decoder of that text.
Codec(op, arg) ==
  LET Decoded18(str) == [encoded |-> str, decoded |-> parseField18String(str)]
      Encoded18(data) == [decoded |-> data, encoded |-> buildField18String(data)]
      Decoded19(str) == [encoded |-> str, decoded |-> parseField19String(str)]
  IN CASE op = "buildField18String" -> Decoded18(buildField18String(arg))
       [] op = "parseField18String" -> Encoded18(parseField18String(arg.str))
       [] op = "buildField19String" -> Decoded19(buildField19String(arg))
       [] op = "parseField19String" -> Decoded19(arg.str)

\* a helper function is called with arguments args and returns result
Call(op, args, result) ==
  /\ fOp = "none"
  /\ fOp' = op
  /\ fIn' = args
  /\ fOut' = <<result>>
  /\ UNCHANGED <<now, nextSweep, storeVars, reqs, histVars, ev, pOp, pBody,
                 pLen, pResult, hostVars>>

\* one call of one helper function, on arguments drawn from the sets below
NextPure ==
  /\ fOp = "none"
  /\ \/ \E old \in CookieMaps(MaxCookies), new \in CookieMaps(MaxCookies) :
           Call("mergeCookies",
                [old |-> old, existing |-> mergeCookies("", old), newCookies |-> new],
                mergeCookies(mergeCookies("", old), new))
     \/ \E method \in {"getCurrentFlightPlans", "saveTemplate", "validateFlightPlan"},
           text \in {"", "PHABC", "0500", "A&B", "a<b", Quote \o "'",
                     "</mob:ARCID><mob:OwnFls>true</mob:OwnFls><mob:ARCID>"} :
           Call("soapRequest", [method |-> method, text |-> text],
                soapRequest(method, text))
     \/ \E isArchive \in BOOLEAN, statusCode \in {0, 4, 11, 48, 49, 53, 490},
           flCanDo \in 0..MaxCanDo :
           Call("canPerformActions",
                [isArchive |-> isArchive, statusCode |-> statusCode, flCanDo |-> flCanDo],
                [can |-> canPerformActions(statusCode, flCanDo),
                 actions |-> ActionButtons(isArchive, statusCode, flCanDo)])
     \/ \E codes \in {<<<<>>, <<>>>>, <<<<"SAR">>, <<"B2", "D2">>>>,
                        <<<<"HOSP", "SAR">>, <<"D2", "B2">>>>},
           flags \in {<<"", FALSE, "">>, <<"C", FALSE, "">>, <<"C", TRUE, "Q1">>},
           stay \in {<<0, "">>, <<1, "NAVCHECK">>, <<StayInfoSlots, "PHOTO FLIGHT">>},
           text \in [{"RMK", "NAV"} ->
                      {"", "GBAS SBAS", "TRAINING A/C", "CALL 123 "}],
           order \in {<<"RMK", "NAV">>, <<"NAV", "RMK">>, <<"RMK">>, <<>>} :
           LET data == [sts |-> codes[1], pbn |-> codes[2], per |-> flags[1],
                        eurProtected |-> flags[2], rfp |-> flags[3],
                        stayInfo |-> [i \in 1..StayInfoSlots |->
                                        IF i = stay[1] THEN stay[2] ELSE ""],
                        textFields |-> [i \in 1..Len(order) |->
                                          <<order[i], text[order[i]]>>]]
           IN Call("buildField18String", data, Codec("buildField18String", data))
     \/ \E t1 \in {"DOF/261101", "RMK/SEE NOTAM", "ZZZ/A", "ZZZ/B", "STAYINFO10/X",
                     "STS/SAR", "EUR/OTHER", "PER/C"},
           t2 \in {"", "DOF/261101", "RMK/SEE NOTAM", "ZZZ/A", "ZZZ/B", "STAYINFO10/X",
                   "STS/SAR", "EUR/OTHER", "PER/C"},
           tail \in {"", " "} :
           LET arg == [tokens |-> IF t2 = "" THEN <<t1>> ELSE <<t1, t2>>,
                       str |-> t1 \o (IF t2 = "" THEN "" ELSE " " \o t2) \o tail]
           IN Call("parseField18String", arg, Codec("parseField18String", arg))
     \/ \E radio \in [1..3 -> BOOLEAN], survival \in [1..4 -> BOOLEAN],
           jackets \in [1..4 -> BOOLEAN],
           times \in {<<"", "">>, <<"0500", "002">>} :
           LET data == [defaultField19Data EXCEPT
                          !.endurance = times[1], !.persons = times[2],
                          !.radioUhf = radio[1], !.radioVhf = radio[2],
                          !.radioElba = radio[3],
                          !.survivalPolar = survival[1], !.survivalDesert = survival[2],
                          !.survivalMaritime = survival[3],
                          !.survivalJungle = survival[4],
                          !.jacketsLight = jackets[1], !.jacketsFluores = jackets[2],
                          !.jacketsUhf = jackets[3], !.jacketsVhf = jackets[4]]
           IN Call("buildField19String", data, Codec("buildField19String", data))
     \/ \E dinghies \in {<<"", "">>, <<"2", "">>, <<"2", "4">>},
           dinghiesCover \in BOOLEAN,
           dinghiesColour \in {"", "YELLOW"},
           aircraftColour \in {"", "WHITE", "WHITE RED"},
           remarks \in {"", "NIL"},
           pilotInCommand \in {"", "SMITH", "JOHN SMITH"} :
           LET data == [defaultField19Data EXCEPT
                          !.dinghiesEnabled = TRUE,
                          !.dinghiesNumber = dinghies[1],
                          !.dinghiesCapacity = dinghies[2],
                          !.dinghiesCover = dinghiesCover,
                          !.dinghiesColour = dinghiesColour,
                          !.aircraftColour = aircraftColour,
                          !.remarks = remarks,
                          !.pilotInCommand = pilotInCommand]
           IN Call("buildField19String", data, Codec("buildField19String", data))
     \/ \E t1 \in {"C\\X", "C\\SMITH", "D\\2", "E\\0500"},
           t2 \in {"", "C\\X", "C\\SMITH", "D\\2", "E\\0500"},
           t3 \in {"", "C\\X", "C\\SMITH", "C\\SMITHSON", "D\\2"} :
           LET arg == [tokens |-> SelectSeq(<<t1, t2, t3>>, LAMBDA t : t # ""),
                       str |-> t1 \o (IF t2 = "" THEN "" ELSE " " \o t2)
                                  \o (IF t3 = "" THEN "" ELSE " " \o t3)]
           IN Call("parseField19String", arg, Codec("parseField19String", arg))
     \/ \E code \in {"F7", "F15a", "f18", "F7A", "FAddinfoRMK",
                      "", "F", "Flight", "FAddinfo", "G7"},
           sep \in {"", " ", " \t"},
           msg \in {"", "Invalid Aircraft Identification", "Something went wrong",
                    "Route\nnot valid"} :
           LET arg == [code |-> code, sep |-> sep, msg |-> msg,
                       text |-> code \o sep \o msg]
           IN Call("parseValidationResponse", arg,
                   parseValidationResponse(
                     "<ns1:FplIsOk>0</ns1:FplIsOk><ns1:FplErrors>" \o arg.text
                       \o "</ns1:FplErrors>"))

SpecPure == Init /\ [][NextPure]_vars

(* ------------------------------- claims -------------------------------- *)
\* C1: every successful getSession resets the session's expiry to now + 30
\* minutes; a session read again at most 20 minutes after its last read is
\* found, and one not read for 31 minutes or more is reported not-found.
C1_SlidingExpiry ==
  ev.op \in {"check", "soapStart"} =>
    /\ ev.obs.found =>
          /\ ev.sid \in DOMAIN sessions
          /\ sessions[ev.sid].expiresAt = now + SESSION_TIMEOUT
    /\ (ev.obs.present /\ ev.obs.gap <= 20) => ev.obs.found
    /\ (ev.obs.present /\ ev.obs.gap >= 31) => ~ev.obs.found

\* a session is found 20 minutes after its last read, later than 30 minutes
\* after the process started
C1_Witness ==
  /\ ev.op = "check"
  /\ ev.obs.found
  /\ ev.obs.gap = 20
  /\ now > SESSION_TIMEOUT
  /\ sessions[ev.sid].expiresAt = now + SESSION_TIMEOUT

\* C2 as stated: once a login submit for X has completed, with success or
\* with a failure result, no Pending Login for X remains in the store.
C2_AsClaimed ==
  (ev.op = "loginDone" /\ ev.status \in {200, 401}) =>
     ev.sid \notin DOMAIN pendingLogins

\* C2 amended: a login submit that succeeds leaves no Pending Login for X and
\* an Active Session under X; one that fails or throws leaves both tables as
\* they were, so X's Pending Login stays until it expires or is deleted.
C2_Amended ==
  [][ev'.op = "loginDone" =>
       IF ev'.status = 200
       THEN /\ ev'.sid \notin DOMAIN pendingLogins'
            /\ ev'.sid \in DOMAIN sessions'
       ELSE /\ pendingLogins' = pendingLogins
            /\ sessions' = sessions]_vars

\* a failed login submit has completed and its Pending Login is still stored
C2_Witness ==
  /\ ev.op = "loginDone"
  /\ ev.status = 401
  /\ ev.hadPending
  /\ ev.sid \in DOMAIN pendingLogins

\* C3: an Active Session appears under X, or gets new credentials, only in
\* the step in which a login submit for X returned success after fetching the
\* landing page, with a non-empty token and remote-session-handle.
C3_OnlyAfterSuccess ==
  [][\A x \in DOMAIN sessions' :
        (\/ x \notin DOMAIN sessions
         \/ [sessions'[x] EXCEPT !.expiresAt = 0] # [sessions[x] EXCEPT !.expiresAt = 0])
        => /\ ev'.op = "loginDone"
           /\ ev'.sid = x
           /\ ev'.result.success
           /\ \E k \in 1..Len(ev'.trace) : ev'.trace[k] = "indexGet"
           /\ sessions'[x].token # ""
           /\ sessions'[x].userSession # ""
           /\ x \in loginOk']_vars

\* a login submit that followed the landing page's redirect returned success
\* and its session is in the store
C3_Witness ==
  /\ ev.op = "loginDone"
  /\ ev.result.success
  /\ ev.trace = <<"loginPost", "indexGet", "redirectGet">>
  /\ ev.sid \in DOMAIN sessions
  /\ ev.sid \in loginOk

\* C4 as stated: after a handler answered 401 for an expired remote session
\* of X, every later getSession for X returns not-found.
C4_AsClaimed ==
  (ev.op \in {"check", "soapStart"} /\ ev.sid \in expiredIds) => ~ev.obs.found

\* C5: getPendingLogin returns the entry when it is less than 5 minutes old,
\* and returns not-found and deletes it when it is more than 5 minutes old.
C5_PendingWindow ==
  (ev.op \in {"captcha", "loginStart"} /\ ev.obs.present) =>
    /\ ev.obs.age < 5 => (ev.obs.found /\ ev.sid \in DOMAIN pendingLogins)
    /\ ev.obs.age > 5 => (~ev.obs.found /\ ev.sid \notin DOMAIN pendingLogins)

\* a Pending Login older than 5 minutes was asked for, reported not-found and
\* deleted by that call
C5_Witness ==
  /\ ev.op = "captcha"
  /\ ev.obs.present
  /\ ev.obs.age > 5
  /\ ev.status = 401
  /\ ev.sid \notin DOMAIN pendingLogins

\* C6: the sweep runs every 5 minutes and leaves no session past its expiry
\* and no pending login older than 5 minutes, so an entry outlives its expiry
\* by at most one sweep period and no session data is kept beyond 30 minutes
\* of inactivity plus that period.
C6_Sweep ==
  /\ nextSweep - now \in 0..CLEANUP_INTERVAL
  /\ ev.op = "cleanup" =>
        /\ \A i \in DOMAIN sessions : now <= sessions[i].expiresAt
        /\ \A i \in DOMAIN pendingLogins :
              now - pendingLogins[i].createdAt <= PENDING_TIMEOUT
  /\ \A i \in DOMAIN sessions :
        /\ now <= sessions[i].expiresAt + CLEANUP_INTERVAL
        /\ i \in DOMAIN lastRead
        /\ now - lastRead[i] <= SESSION_TIMEOUT + CLEANUP_INTERVAL
  /\ \A i \in DOMAIN pendingLogins :
        now - pendingLogins[i].createdAt <= PENDING_TIMEOUT + CLEANUP_INTERVAL

\* a sweep has just removed a session that nobody read after it expired
C6_Witness ==
  /\ ev.op = "cleanup"
  /\ ev.sessions # {}
  /\ sessions = <<>>

\* C7: activateSession leaves no pending entry for the id and installs a
\* session with exactly the credentials it was given; no id is ever in both
\* the pending-login table and the active-session table.
C7_Activate ==
  /\ (DOMAIN sessions) \cap (DOMAIN pendingLogins) = {}
  /\ (ev.op = "loginDone" /\ ev.status = 200) =>
        /\ ev.sid \notin DOMAIN pendingLogins
        /\ ev.sid \in DOMAIN sessions
        /\ sessions[ev.sid] = [cookies |-> ev.result.cookies,
                               token |-> ev.result.token,
                               userSession |-> ev.result.userSession,
                               expiresAt |-> now + SESSION_TIMEOUT]

\* activateSession ran for an id whose Pending Login was in the store: the
\* entry is gone and the session is installed
C7_Witness ==
  /\ ev.op = "loginDone"
  /\ ev.status = 200
  /\ ev.hadPending
  /\ ev.sid \notin DOMAIN pendingLogins
  /\ ev.sid \in DOMAIN sessions
  /\ sessions[ev.sid].userSession = "u1"

\* C8: init answers an error and leaves the pending table as it was unless
\* the login page's response carries the session cookie and a non-empty token;
\* with both it stores one new Pending Login holding that token.
C8_Init ==
  [][ev'.op = "init" =>
       LET resp == ev'.resp
           hasCookie == Includes(resp.setCookie, SESSION_COOKIE \o "=")
           hasToken == \E i \in Occurrences(resp.html, TokenPrefix) :
                          Sub(resp.html, i + Len(TokenPrefix), i + Len(TokenPrefix))
                            \notin {"", Quote}
       IN IF ~resp.threw /\ hasCookie /\ hasToken
          THEN /\ ev'.status = 200
               /\ ev'.sid \notin DOMAIN pendingLogins
               /\ DOMAIN pendingLogins' = DOMAIN pendingLogins \cup {ev'.sid}
               /\ pendingLogins'[ev'.sid].token # ""
               /\ Includes(resp.html, pendingLogins'[ev'.sid].token)
               /\ Includes(pendingLogins'[ev'.sid].cookies, SESSION_COOKIE \o "=")
          ELSE /\ ev'.status = 500
               /\ ev'.sid = NoSid
               /\ pendingLogins' = pendingLogins]_vars

\* init was answered with the session cookie but without a token: it failed
\* and nothing is stored
C8_Witness ==
  /\ ev.op = "init"
  /\ ev.status = 500
  /\ ~ev.resp.threw
  /\ Includes(ev.resp.setCookie, SESSION_COOKIE \o "=")
  /\ pendingLogins = <<>>
  /\ usedIds = {}

\* C9: when the landing-page GET is answered with a redirect to the login
\* page, submit fails without following the redirect, extracts no token or
\* handle and no Active Session is installed.
C9_RedirectToLogin ==
  [][(/\ ev'.op = "loginDone"
      /\ ev'.index # <<>>
      /\ ev'.index[1].status \in {301, 302}
      /\ Includes(ev'.index[1].location, "login.php"))
     => /\ ~ev'.result.success
        /\ ev'.status = 401
        /\ ev'.trace = <<"loginPost", "indexGet">>
        /\ ev'.result.token = ""
        /\ ev'.result.userSession = ""
        /\ sessions' = sessions]_vars

\* a login submit ended on a redirect to the login page and no session exists
C9_Witness ==
  /\ ev.op = "loginDone"
  /\ ev.index # <<>>
  /\ ev.index[1].status = 302
  /\ Includes(ev.index[1].location, "login.php")
  /\ ev.status = 401
  /\ sessions = <<>>

\* C10: every response parser classifies a body containing <!DOCTYPE html,
\* or Session Expired in any letter case, as expired whatever else it holds:
\* sessionExpired and isError are set and nothing is parsed (lists empty,
\* counts zero, flags false, optional fields unset).
C10_ExpiredFirst ==
  (/\ pResult # <<>>
   /\ \/ Includes(pBody, "<!DOCTYPE html")
      \/ OccurrencesCI(pBody, "session expired") # {})
  => /\ pResult[1].sessionExpired
     /\ pResult[1].isError
     /\ \A f \in DOMAIN pResult[1] \ {"sessionExpired", "isError"} :
          CASE f \in {"fplsCount", "totalPages", "currentPage", "msgCount",
                      "count", "deletedTplId"} -> pResult[1][f] = 0
            [] f \in {"success", "fplIsOk", "fplIsSent", "msgSent", "found"} ->
                 pResult[1][f] = FALSE
            [] OTHER -> pResult[1][f] = <<>>

\* the flight-plan list parser was given a body holding both a count and
\* <!DOCTYPE html and reported it expired with a zero count
C10_Witness ==
  /\ pOp = "list"
  /\ pResult # <<>>
  /\ Includes(pBody, "<FPLsCount>2</FPLsCount>")
  /\ Includes(pBody, "<!DOCTYPE html")
  /\ pResult[1].sessionExpired
  /\ pResult[1].fplsCount = 0

\* C11 as stated: a SOAP call whose HTTP exchange failed (the fetch rejected
\* or the portal answered 5xx) never yields sessionExpired and never makes the
\* handler delete the session and answer 401.
C11_AsClaimed ==
  (ev.op = "soapDone" /\ (ev.threw \/ ev.http >= 500)) =>
     (~ev.sessionExpired /\ ev.status # 401)

\* C12 as stated: the header mergeCookies returns names every cookie of the
\* existing header and of the new set exactly once, a cookie of the new set
\* with its new value.
C12_AsClaimed ==
  fOp = "mergeCookies" =>
    LET parts == IF fOut[1] = "" THEN <<>> ELSE Split(fOut[1], "; ")
        NameOf(part) == Sub(part, 1, FirstChar(part, "=", 1) - 1)
        ValueOf(part) == Sub(part, FirstChar(part, "=", 1) + 1, Len(part))
        Once(name) == Cardinality({ i \in 1..Len(parts) : NameOf(parts[i]) = name }) = 1
    IN /\ \A i \in 1..Len(fIn.old) : Once(fIn.old[i][1])
       /\ \A i \in 1..Len(fIn.newCookies) :
            /\ Once(fIn.newCookies[i][1])
            /\ \E k \in 1..Len(parts) :
                  /\ NameOf(parts[k]) = fIn.newCookies[i][1]
                  /\ ValueOf(parts[k]) = fIn.newCookies[i][2]

\* C13 as stated: whatever text the caller supplies, the envelope holds the
\* markup of the fixed envelope only: as many < and > as the same envelope
\* built for an empty text.
C13_AsClaimed ==
  fOp = "soapRequest" =>
    \A c \in {"<", ">"} :
       Cardinality(Occurrences(fOut[1], c)) =
         Cardinality(Occurrences(soapRequest(fIn.method, ""), c))

\* C14: for every bitmask, a flight plan whose status code is neither 48 nor
\* 53 permits no state-changing action.
C14_NotAccepted ==
  (fOp = "canPerformActions" /\ fIn.statusCode \notin {48, 53}) =>
     (~fOut[1].can /\ fOut[1].actions = {})

\* a flight plan with a rejected status and bitmask 3, which an accepted
\* status would allow to be delayed, is offered no action
C14_Witness ==
  /\ fOp = "canPerformActions"
  /\ fIn.statusCode = 49
  /\ fIn.flCanDo = 3
  /\ ~fIn.isArchive
  /\ fOut[1].actions = {}

C16_DelayCancel ==
  (fOp = "canPerformActions" /\ fIn.flCanDo \in {1, 3}
     /\ fIn.statusCode \in {48, 53}) =>
     /\ fOut[1].can
     /\ ~fIn.isArchive => fOut[1].actions = {"delay", "cancel"}

\* an accepted flight plan with bitmask 1 is offered delay and cancel
C16_Witness ==
  /\ fOp = "canPerformActions"
  /\ fIn.statusCode = 53
  /\ fIn.flCanDo = 1
  /\ ~fIn.isArchive
  /\ fOut[1].actions = {"delay", "cancel"}

\* C17: with bitmask 7 or 4 (and with any bitmask that has bit 4 set) no
\* state-changing action is permitted, for every status code.
C17_Disabled ==
  (fOp = "canPerformActions"
     /\ (fIn.flCanDo \in {4, 7} \/ BitAnd(fIn.flCanDo, 4) = 4)) =>
     (~fOut[1].can /\ fOut[1].actions = {})

\* an accepted flight plan with bitmask 7 is offered no action
C17_Witness ==
  /\ fOp = "canPerformActions"
  /\ fIn.statusCode = 48
  /\ fIn.flCanDo = 7
  /\ ~fIn.isArchive
  /\ ~fOut[1].can

\* C18: decoding the encoding of a Field 18 data gives that data back: the
\* same special-handling codes, the same navigation-performance codes in
\* the same order, the same performance category, region flag and
\* replacement-plan tag, the same stay reasons, and the same text indicators
\* (those with a value; the encoding has no token for an empty one).
C18_AsClaimed ==
  LET Entries(m) == { m[i] : i \in { j \in 1..Len(m) : m[j][2] # "" } }
      Same(d, e) == /\ e.sts = d.sts
                    /\ e.pbn = d.pbn
                    /\ e.per = d.per
                    /\ e.eurProtected = d.eurProtected
                    /\ e.rfp = d.rfp
                    /\ e.stayInfo = d.stayInfo
                    /\ Entries(e.textFields) = Entries(d.textFields)
  IN fOp = "buildField18String" => Same(fIn, fOut[1].decoded)

\* C19: every CODE/value token of a decoded Field 18 string whose code the
\* editor does not model (not STS, PBN, PER, EUR, RFP or STAYINFO1..9) is a
\* text indicator of the decoded data with that code and value, and the
\* encoding of the decoded data contains the token.
C19_AsClaimed ==
  LET Modelled == {"STS", "PBN", "PER", "EUR", "RFP"}
                    \cup { "STAYINFO" \o Digits[i + 1] : i \in 1..StayInfoSlots }
      Kept(tok, slash, out) ==
        Sub(tok, 1, slash - 1) \notin Modelled =>
          /\ MapHas(out.decoded.textFields, Sub(tok, 1, slash - 1))
          /\ MapGet(out.decoded.textFields, Sub(tok, 1, slash - 1))
               = Sub(tok, slash + 1, Len(tok))
          /\ Includes(out.encoded, tok)
  IN fOp = "parseField18String" =>
       \A i \in 1..Len(fIn.tokens) :
          Kept(fIn.tokens[i], FirstChar(fIn.tokens[i], "/", 1), fOut[1])

\* C20: decoding the encoding of a Field 19 data gives the same radio,
\* survival-equipment and life-jacket booleans.
C20_AsClaimed ==
  LET Groups == {"radioUhf", "radioVhf", "radioElba", "survivalPolar",
                 "survivalDesert", "survivalMaritime", "survivalJungle",
                 "jacketsLight", "jacketsFluores", "jacketsUhf", "jacketsVhf"}
  IN fOp = "buildField19String" =>
       \A f \in Groups : fOut[1].decoded[f] = fIn[f]

\* C21: for a Field 19 data with dinghies enabled, decoding the encoding
\* gives back the dinghy count, capacity, cover flag and colour, the
\* aircraft colour, the remarks and the pilot-in-command name.
C21_AsClaimed ==
  LET Fields == {"dinghiesNumber", "dinghiesCapacity", "dinghiesCover",
                 "dinghiesColour", "aircraftColour", "remarks", "pilotInCommand"}
  IN (fOp = "buildField19String" /\ fIn.dinghiesEnabled) =>
       \A f \in Fields : fOut[1].decoded[f] = fIn[f]

\* C22: in a decoded Field 19 string with one D\ token, the C\ tokens
\* after the D\ token give the pilot-in-command name (the last of them),
\* and the dinghy-cover flag is set exactly when a C\ token stands before
\* the D\ token.
C22_AsClaimed ==
  LET IsC(t) == Sub(t, 1, 2) = "C\\"
      IsD(t) == Sub(t, 1, 2) = "D\\"
      Resolved(toks, d, out) ==
        LET before == { i \in 1..(d - 1) : IsC(toks[i]) }
            after == { i \in (d + 1)..Len(toks) : IsC(toks[i]) }
            Last(S) == CHOOSE i \in S : \A j \in S : j <= i
        IN /\ out.dinghiesCover = (before # {})
           /\ out.pilotInCommand =
                IF after = {} THEN ""
                ELSE Sub(toks[Last(after)], 3, Len(toks[Last(after)]))
      OneD(toks) == { d \in 1..Len(toks) : IsD(toks[d]) }
  IN fOp = "parseField19String" =>
       \A d \in OneD(fIn.tokens) :
          OneD(fIn.tokens) = {d} => Resolved(fIn.tokens, d, fOut[1].decoded)

\* C23: a validation error text made of a field code (F, digits and an
\* optional letter, or FAddinfo and word characters), white space and a
\* one-line message is parsed into that code and that message; a text that
\* does not start with a field code is filed whole under "General".
C23_FieldCode ==
  LET Codes == {"F7", "F15a", "f18", "F7A", "FAddinfoRMK"}
      OneLine(m) == m # "" /\ \A k \in 1..Len(m) : ~IsLineBreak(Sub(m, k, k))
      NoCode(t) == /\ ~(StartsAtCI(t, 1, "f") /\ IsDigit(Sub(t, 2, 2)))
                   /\ ~(StartsAtCI(t, 1, "faddinfo") /\ IsWordChar(Sub(t, 9, 9)))
      Parsed(a, errors) ==
        /\ (a.code \in Codes /\ a.sep # "" /\ OneLine(a.msg)) =>
             errors = <<[field |-> a.code, message |-> a.msg]>>
        /\ (a.text # "" /\ NoCode(a.text)) =>
             errors = <<[field |-> "General", message |-> a.text]>>
  IN fOp = "parseValidationResponse" => Parsed(fIn, fOut[1].fieldErrors)

C23_Witness ==
  /\ fOp = "parseValidationResponse"
  /\ fIn.text = "F7 Invalid Aircraft Identification"
  /\ fOut[1].fieldErrors
       = <<[field |-> "F7", message |-> "Invalid Aircraft Identification"]>>

\* C24: a validation or save-template result that reports failure and has
\* neither field errors nor error messages from the response carries the
\* response body as rawResponse, and a result that reports success carries
\* none.
C24_RawResponse ==
  LET Ok(r) == IF pOp = "validate" THEN r.fplIsOk ELSE r.success
      Details(r) == IF pOp = "validate"
                    THEN r.fieldErrors # <<>> \/ r.errorMessages # <<>>
                    ELSE r.errorMessage
                           \notin {<<>>, <<"Unknown error - check server logs for details">>}
      Raw(r) == /\ (~r.sessionExpired /\ ~Ok(r) /\ ~Details(r)) =>
                     r.rawResponse = <<pBody>>
                /\ Ok(r) => r.rawResponse = <<>>
  IN (pOp \in {"validate", "tplSave"} /\ pResult # <<>>) => Raw(pResult[1])

C24_Witness ==
  /\ pOp = "validate"
  /\ pResult # <<>>
  /\ ~pResult[1].sessionExpired
  /\ ~pResult[1].fplIsOk
  /\ pResult[1].fieldErrors = <<>>
  /\ pResult[1].errorMessages = <<>>
  /\ pBody # ""
  /\ pResult[1].rawResponse = <<pBody>>

\* C25: the steps of a handshake run in sequence. The login POST is issued
\* only when getPendingLogin found a live pending login for the id; a
\* request waiting for the landing page has issued the login POST before,
\* and one waiting for the followed redirect has issued both and saw a 302
\* whose location is not the login page; and the cookies a GET carries hold
\* every cookie the request before it carried and every cookie the response
\* to that request set, the response's value winning.
C25_AsClaimed ==
  LET RECURSIVE Jar(_, _)
      Jar(parts, m) ==
        IF parts = <<>> THEN m
        ELSE Jar(Tail(parts),
                 MapSet(m, Sub(Head(parts), 1, FirstChar(Head(parts), "=", 1) - 1),
                        Sub(Head(parts), FirstChar(Head(parts), "=", 1) + 1,
                            Len(Head(parts)))))
      JarOf(str) == IF str = "" THEN <<>> ELSE Jar(Split(str, "; "), <<>>)
      Merged(old, new, got) ==
        /\ MapKeys(got) = MapKeys(old) \cup MapKeys(new)
        /\ \A k \in MapKeys(got) :
              MapGet(got, k) = IF MapHas(new, k) THEN MapGet(new, k) ELSE MapGet(old, k)
      Ordered(q) ==
        /\ q.pc = "indexGet" => q.trace = <<"loginPost", "indexGet">>
        /\ q.pc = "redirectGet" =>
              /\ q.trace = <<"loginPost", "indexGet", "redirectGet">>
              /\ q.index[1].status = 302
              /\ ~Includes(q.index[1].location, "login.php")
  IN /\ (ev.op = "loginStart" /\ ev.status = 0) => ev.obs.found
     /\ \A r \in Reqs : reqs[r].pc \in LoginPcs => Ordered(reqs[r])
     /\ ev.op = "loginStep" =>
           Merged(JarOf(ev.sent), extractCookies(ev.setCookie), JarOf(ev.cookies))

C27_AsClaimed == timers = <<>>

\* C28: whenever the login handler installs an Active Session under id X,
\* a Pending Login for X that has not expired is in the store at that moment.
C28_AsClaimed ==
  (ev.op = "loginDone" /\ ev.status = 200) => ev.pendingLive

\* C29: a handler issues its SOAP request only in a step in which its
\* getSession call returned a session that was in the store and not past
\* its expiry for the id of the cookie; without a cookie, with an unknown id
\* or with an expired session the handler answers 401 and no request of it
\* goes out.
C29_NoCallWithoutSession ==
  [][ LET Live(id) == /\ id # NoSid
                      /\ id \in DOMAIN sessions
                      /\ now <= sessions[id].expiresAt
      IN /\ \A r \in Reqs :
              (reqs'[r].pc = "soap" /\ reqs[r].pc # "soap") =>
                /\ ev'.op = "soapStart"
                /\ ev'.sid = reqs'[r].sid
                /\ Live(ev'.sid)
                /\ ev'.obs.found
         /\ (ev'.op = "soapStart" /\ ~Live(ev'.sid)) =>
              /\ ev'.status = 401
              /\ reqs' = reqs ]_vars

\* a handler called with the id of a session that is past its expiry
\* answered 401 and sent nothing
C29_Witness ==
  /\ ev.op = "soapStart"
  /\ ev.status = 401
  /\ ev.sid # NoSid
  /\ ev.obs.present
  /\ ev.obs.gap > SESSION_TIMEOUT
  /\ \A r \in Reqs : reqs[r].pc = "idle"

\* C30: a client that logged in and has sent an authenticated request at
\* least every 20 minutes since, and whose session is alive in the store, is
\* not answered 401 by a handler.
C30_AsClaimed ==
  (/\ ev.op = "soapStart"
   /\ browser # <<>>
   /\ browser[1].sid \in DOMAIN sessions
   /\ now <= sessions[browser[1].sid].expiresAt
   /\ browser[1].sid \in DOMAIN lastRead
   /\ lastRead[browser[1].sid] - (browser[1].expires - COOKIE_MAX_AGE) <= 20
   /\ now - lastRead[browser[1].sid] <= 20)
  => ev.status # 401

====
